---- MODULE Spec2Model ----
(***************************************************************************)
(* go-ds-gcs: a datastore whose objects live in a GCS bucket, fronted by   *)
(* an in-memory metadata index (MetadataCache) and a bounded LRU cache of  *)
(* object contents (dataCache).                                            *)
(*                                                                         *)
(* Strings (keys, object names, prefixes) are sequences of one-character   *)
(* strings, so that path.Join, strings.TrimPrefix and strings.HasPrefix    *)
(* are computed character by character.  Values are sequences of bytes.    *)
(***************************************************************************)
EXTENDS Integers, Sequences, FiniteSets, TLC

VARIABLES
    cfg,        \* Config of the running adapter: Prefix, DataCacheItems
    remote,     \* the bucket: object name -> content
    mdCache,    \* MetadataCache.cache: key -> Metadata
    dataCache,  \* lru.Cache: entries, most recently used first
    qit,        \* the Results handed out by the last accepted Query
    last,       \* the call that made the last step, and what it returned
    hist,       \* history, per key: what this adapter did to it
    phase,      \* history: "new", "loaded" (bulk-load only), "used"
    parse,      \* the plugin's configuration parser: the map given, the outcome
    conc,       \* the calls in progress when callers run concurrently
    create      \* the plugin's Create: what it called, and what it returned

vars == <<cfg, remote, mdCache, dataCache, qit, last, hist, phase, parse,
          conc, create>>

----------------------------------------------------------------------------
(* Bounds of the model.                                                    *)

\* Config.DataCacheItems of the modelled adapter
CacheItems == 1
\* largest Query.Limit tried
MaxLimit == 1

----------------------------------------------------------------------------
(* Strings.                                                                *)

\* strings.HasPrefix
HasPrefix(s, p) == Len(p) <= Len(s) /\ SubSeq(s, 1, Len(p)) = p

\* strings.TrimPrefix
TrimPrefix(s, p) == IF HasPrefix(s, p) THEN SubSeq(s, Len(p) + 1, Len(s)) ELSE s

\* the non-empty components of s between slashes
RECURSIVE SplitSlash(_, _, _)
SplitSlash(s, cur, acc) ==
    IF s = <<>>
    THEN IF cur = <<>> THEN acc ELSE Append(acc, cur)
    ELSE IF Head(s) = "/"
         THEN SplitSlash(Tail(s), <<>>, IF cur = <<>> THEN acc ELSE Append(acc, cur))
         ELSE SplitSlash(Tail(s), Append(cur, Head(s)), acc)

\* strings.Join(parts, "/")
RECURSIVE JoinSlash(_)
JoinSlash(parts) ==
    IF parts = <<>> THEN <<>>
    ELSE IF Len(parts) = 1 THEN parts[1]
    ELSE parts[1] \o <<"/">> \o JoinSlash(Tail(parts))

\* path.Clean on strings without "." elements: repeated slashes collapse, a
\* trailing slash goes (but the root stays), the empty string becomes "."
Clean(s) ==
    IF s = <<>> THEN <<".">>
    ELSE LET body == JoinSlash(SplitSlash(s, <<>>, <<>>))
         IN  IF Head(s) = "/" THEN <<"/">> \o body ELSE body

\* path.Join(a, b): empty elements are ignored, the rest joined and cleaned
PathJoin(a, b) ==
    LET parts == SelectSeq(<<a, b>>, LAMBDA e : e # <<>>)
    IN  IF parts = <<>> THEN <<>> ELSE Clean(JoinSlash(parts))

\* ds.NewKey(s).String(): the key is cleaned and made to start with a slash
NewKey(s) ==
    IF s = <<>> THEN <<"/">>
    ELSE IF Head(s) = "/" THEN Clean(s) ELSE Clean(<<"/">> \o s)

\* byte order of the characters used, for the bucket's listing order
Ord(c) ==
    CASE c = "/" -> 47 [] c = "a" -> 97 [] c = "b" -> 98 [] c = "f" -> 102
      [] c = "i" -> 105 [] c = "p" -> 112 [] c = "s" -> 115 [] OTHER -> 0

RECURSIVE LexLess(_, _)
LexLess(s, t) ==
    IF t = <<>> THEN FALSE
    ELSE IF s = <<>> THEN TRUE
    ELSE IF Head(s) = Head(t) THEN LexLess(Tail(s), Tail(t))
    ELSE Ord(Head(s)) < Ord(Head(t))

----------------------------------------------------------------------------
(* The universe of the model.                                              *)

\* datastore keys the callers use (ds.Key.String(): clean, starting with "/")
Keys == { <<"/", "a">>, <<"/", "a", "b">> }

\* contents the callers Put
Values == { <<1>>, <<2, 1>> }

\* the content an earlier adapter stored under a key, where it stored one
StoredValue(k) == IF Len(k) = 2 THEN <<1>> ELSE <<2, 1>>

\* "ipfs" is the prefix of the tests and the README; "ipfs/" is the plugin's
\* defaultPrefix
Prefixes == { <<"i", "p", "f", "s">>, <<"i", "p", "f", "s", "/">> }

\* Query.Prefix values tried
QueryPrefixes == { <<>>, <<"/", "a">>, <<"/", "a", "b">> }

Limits == 0 .. MaxLimit

----------------------------------------------------------------------------
(* Finite maps.                                                            *)

EmptyMap == [x \in {} |-> 0]

MapPut(f, k, v) == [x \in (DOMAIN f) \cup {k} |-> IF x = k THEN v ELSE f[x]]

MapDel(f, k) == [x \in (DOMAIN f) \ {k} |-> f[x]]

\* all orderings of a finite set, as sequences without repetition
Orderings(S) ==
    { o \in [1 .. Cardinality(S) -> S] : \A i, j \in 1 .. Cardinality(S) : o[i] = o[j] => i = j }

----------------------------------------------------------------------------
(* MetadataCache (metadata.go).                                            *)

\* NewMetadataCache
NewMetadataCache == EmptyMap

\* MetadataCache.Has
MdHas(md, key) == key \in DOMAIN md

\* MetadataCache.Get: the record, or ErrNotFound
MdGet(md, key) ==
    IF key \in DOMAIN md
    THEN [md |-> md[key], err |-> "nil"]
    ELSE [md |-> [Key |-> key, Size |-> -1], err |-> "ErrNotFound"]

\* Put keeping the size a key already has
MdPutNoOverwrite(md, key, size) ==
    IF key \in DOMAIN md THEN md ELSE MapPut(md, key, [Key |-> key, Size |-> size])

\* MetadataCache.Put
MdPut(md, key, size) == MapPut(md, key, [Key |-> key, Size |-> size])

\* MetadataCache.Delete
MdDelete(md, key) == MapDel(md, key)

\* MetadataCache.Size
MdSize(md) == Cardinality(DOMAIN md)

\* the loop of MetadataCache.Iterator over the map in the order `order`:
\* matching entries are appended, and the loop stops when limit > 0 entries
\* have been collected
RECURSIVE IterCollect(_, _, _, _, _)
IterCollect(md, order, prefix, limit, values) ==
    IF order = <<>> THEN values
    ELSE LET k == Head(order)
             vs == IF HasPrefix(k, prefix) THEN Append(values, md[k]) ELSE values
         IN  IF limit > 0 /\ Len(vs) = limit
             THEN vs
             ELSE IterCollect(md, Tail(order), prefix, limit, vs)

\* Iterator without the strings.HasPrefix test
IteratorAnyPrefix(md, order, prefix, limit) == IterCollect(md, order, <<>>, limit, <<>>)

\* Iterator without the limit
IteratorNoLimit(md, order, prefix, limit) == IterCollect(md, order, prefix, 0, <<>>)

\* MetadataCache.Iterator: the snapshot `values` the returned closure walks.
\* Go ranges over a map in an unspecified order: `order` is that order.
Iterator(md, order, prefix, limit) == IterCollect(md, order, prefix, limit, <<>>)

----------------------------------------------------------------------------
(* lru.Cache, as used for dataCache: entries, most recently used first.    *)

LruIndex(c, key) == { i \in 1 .. Len(c) : c[i].key = key }

LruContains(c, key) == LruIndex(c, key) # {}

LruWithout(c, key) == SelectSeq(c, LAMBDA e : e.key # key)

LruValue(c, key) == c[CHOOSE i \in LruIndex(c, key) : TRUE].val

\* Cache.Add dropping the newest entry when the size is exceeded
LruAddEvictsNewest(c, size, key, val) ==
    IF LruContains(c, key)
    THEN <<[key |-> key, val |-> val]>> \o LruWithout(c, key)
    ELSE IF Len(c) >= size THEN c ELSE <<[key |-> key, val |-> val]>> \o c

\* Cache.Add: a key already held gets the new value and becomes most recent;
\* a new key is added and the oldest entry leaves when the size is exceeded
LruAdd(c, size, key, val) ==
    IF LruContains(c, key)
    THEN <<[key |-> key, val |-> val]>> \o LruWithout(c, key)
    ELSE LET c2 == <<[key |-> key, val |-> val]>> \o c
         IN  IF Len(c2) > size THEN SubSeq(c2, 1, Len(c2) - 1) ELSE c2

\* Cache.Get leaving the order of the entries as it is
LruTouchNoMove(c, key) == c

\* Cache.Get on a key it holds: the entry becomes most recent
LruTouch(c, key) == <<[key |-> key, val |-> LruValue(c, key)]>> \o LruWithout(c, key)

\* Cache.Remove
LruRemove(c, key) == LruWithout(c, key)

----------------------------------------------------------------------------
(* The bucket.                                                             *)

\* GCSDatastore.GCSPath
GCSPath(key) == PathJoin(cfg.Prefix, key)

\* the names the bucket lists for Query{Prefix}, in the listing's order
Listing(rem, prefix) ==
    LET names == { n \in DOMAIN rem : HasPrefix(n, prefix) }
    IN  CHOOSE o \in Orderings(names) :
            \A i, j \in 1 .. Len(o) : i < j => LexLess(o[i], o[j])

----------------------------------------------------------------------------
(* The adapter's calls, as functions of the state they read: what they     *)
(* leave behind and what they return.  `fault` is what the bucket does to  *)
(* the call: "none", or the step that fails.                               *)

\* what a call returned: the error, Has's answer (for a query's entry: whether
\* it carries a value), the size, the bytes,
\* the bucket's own answer (rerr), the remote calls made and the fault met;
\* clauses is the number of orderings and filters a Query came with, again
\* whether a Delete came right after a successful Delete of the same key
Ret(op, key, err, has, size, data, rerr, rcalls, fault) ==
    [op |-> op, key |-> key, err |-> err, has |-> has, size |-> size,
     data |-> data, rerr |-> rerr, rcalls |-> rcalls, fault |-> fault,
     clauses |-> 0, again |-> FALSE]

\* Put updating the index and the cache before it looks at Close's error
PutCallEager(rem, md, dc, k, value, fault) ==
    [rem |-> IF fault = "none" THEN MapPut(rem, GCSPath(k), value) ELSE rem,
     md |-> MdPut(md, k, Len(value)),
     dc |-> LruAdd(dc, cfg.DataCacheItems, k, value),
     err |-> IF fault = "none" THEN "nil" ELSE "transport", rcalls |-> 1]

\* GCSDatastore.Put: the object is written; only when Close succeeds are the
\* index and the cache updated.  The bucket commits an object when its writer
\* is closed: a Close that fails leaves the bucket as it was.
PutCall(rem, md, dc, k, value, fault) ==
    LET path == GCSPath(k)
        err  == IF fault = "none" THEN "nil" ELSE "transport"
    IN  IF err # "nil"
        THEN [rem |-> rem, md |-> md, dc |-> dc, err |-> err, rcalls |-> 1]
        ELSE [rem |-> MapPut(rem, path, value),
              md |-> MdPut(md, k, Len(value)),
              dc |-> LruAdd(dc, cfg.DataCacheItems, k, value),
              err |-> "nil", rcalls |-> 1]

\* the bytes buf.ReadFrom(r) leaves in the buffer: all of the object, or, when
\* the stream fails after n bytes, those n bytes (the error is not looked at)
ReadFrom(content, fault, n) ==
    IF fault = "read" /\ n < Len(content) THEN SubSeq(content, 1, n) ELSE content

\* Get probing the bucket before it looks into the cache
GetCallProbeFirst(rem, dc, k, fault, n) ==
    IF LruContains(dc, k)
    THEN [data |-> LruValue(dc, k), err |-> "nil", dc |-> LruTouch(dc, k),
          rcalls |-> 1, fault |-> "none"]
    ELSE [data |-> <<>>, err |-> "ErrNotFound", dc |-> <<>>, rcalls |-> 1, fault |-> "none"]

\* Get returning what it read without adding it to the cache
GetCallNoCache(rem, dc, k, fault, n) ==
    LET path == GCSPath(k) IN
    IF LruContains(dc, k)
    THEN [data |-> LruValue(dc, k), err |-> "nil", dc |-> LruTouch(dc, k),
          rcalls |-> 0, fault |-> "none"]
    ELSE IF fault = "attrs"
    THEN [data |-> <<>>, err |-> "transport", dc |-> dc, rcalls |-> 1, fault |-> fault]
    ELSE IF path \notin DOMAIN rem
    THEN [data |-> <<>>, err |-> "ErrNotFound", dc |-> dc, rcalls |-> 1, fault |-> "none"]
    ELSE IF fault = "reader"
    THEN [data |-> <<>>, err |-> "transport", dc |-> dc, rcalls |-> 2, fault |-> fault]
    ELSE LET data == ReadFrom(rem[path], fault, n)
         IN  [data |-> data, err |-> "nil", dc |-> dc, rcalls |-> 2,
              fault |-> IF data = rem[path] THEN "none" ELSE fault]

\* GCSDatastore.Get: the cache, else Attrs, NewReader and the read
GetCall(rem, dc, k, fault, n) ==
    LET path == GCSPath(k) IN
    IF LruContains(dc, k)
    THEN [data |-> LruValue(dc, k), err |-> "nil", dc |-> LruTouch(dc, k),
          rcalls |-> 0, fault |-> "none"]
    ELSE IF fault = "attrs"
    THEN [data |-> <<>>, err |-> "transport", dc |-> dc, rcalls |-> 1, fault |-> fault]
    ELSE IF path \notin DOMAIN rem
    THEN [data |-> <<>>, err |-> "ErrNotFound", dc |-> dc, rcalls |-> 1, fault |-> "none"]
    ELSE IF fault = "reader"
    THEN [data |-> <<>>, err |-> "transport", dc |-> dc, rcalls |-> 2, fault |-> fault]
    ELSE LET data == ReadFrom(rem[path], fault, n)
         IN  [data |-> data, err |-> "nil",
              dc |-> LruAdd(dc, cfg.DataCacheItems, k, data), rcalls |-> 2,
              fault |-> IF data = rem[path] THEN "none" ELSE fault]

\* Has asking the bucket instead of the index
HasCallRemote(md, k) == [has |-> GCSPath(k) \in DOMAIN remote, err |-> "nil", rcalls |-> 1]

\* GCSDatastore.Has
HasCall(md, k) == [has |-> MdHas(md, k), err |-> "nil", rcalls |-> 0]

\* GetSize asking the bucket for the object's size
GetSizeCallRemote(md, k) ==
    IF GCSPath(k) \in DOMAIN remote
    THEN [size |-> Len(remote[GCSPath(k)]), err |-> "nil", rcalls |-> 1]
    ELSE [size |-> -1, err |-> "ErrNotFound", rcalls |-> 1]

\* GCSDatastore.GetSize
GetSizeCall(md, k) ==
    LET r == MdGet(md, k)
    IN  IF r.err # "nil"
        THEN [size |-> -1, err |-> r.err, rcalls |-> 0]
        ELSE [size |-> r.md.Size, err |-> "nil", rcalls |-> 0]

\* Delete without dataCache.Remove
DeleteCallKeepsCache(rem, md, dc, k, fault) ==
    LET path == GCSPath(k)
        err  == IF fault # "none" THEN "transport"
                ELSE IF path \in DOMAIN rem THEN "nil" ELSE "ErrObjectNotExist"
    IN  IF err # "nil" /\ err # "ErrObjectNotExist"
        THEN [rem |-> rem, md |-> md, dc |-> dc, err |-> err, rerr |-> err, rcalls |-> 1]
        ELSE [rem |-> MapDel(rem, path), md |-> MdDelete(md, k),
              dc |-> dc, err |-> "nil", rerr |-> err, rcalls |-> 1]

\* Delete returning every error of the bucket, ErrObjectNotExist included
DeleteCallStrict(rem, md, dc, k, fault) ==
    LET path == GCSPath(k)
        err  == IF fault # "none" THEN "transport"
                ELSE IF path \in DOMAIN rem THEN "nil" ELSE "ErrObjectNotExist"
    IN  IF err # "nil"
        THEN [rem |-> rem, md |-> md, dc |-> dc, err |-> err, rerr |-> err, rcalls |-> 1]
        ELSE [rem |-> MapDel(rem, path), md |-> MdDelete(md, k),
              dc |-> LruRemove(dc, k), err |-> "nil", rerr |-> err, rcalls |-> 1]

\* Delete dropping the local records whatever the bucket answered
DeleteCallEager(rem, md, dc, k, fault) ==
    LET path == GCSPath(k)
        err  == IF fault # "none" THEN "transport"
                ELSE IF path \in DOMAIN rem THEN "nil" ELSE "ErrObjectNotExist"
    IN  [rem |-> IF fault = "none" THEN MapDel(rem, path) ELSE rem,
         md |-> MdDelete(md, k), dc |-> LruRemove(dc, k),
         err |-> IF err = "transport" THEN err ELSE "nil", rerr |-> err, rcalls |-> 1]

\* Delete emptying the data cache
DeleteCallPurges(rem, md, dc, k, fault) ==
    LET path == GCSPath(k)
        err  == IF fault # "none" THEN "transport"
                ELSE IF path \in DOMAIN rem THEN "nil" ELSE "ErrObjectNotExist"
    IN  IF err # "nil" /\ err # "ErrObjectNotExist"
        THEN [rem |-> rem, md |-> md, dc |-> dc, err |-> err, rerr |-> err, rcalls |-> 1]
        ELSE [rem |-> MapDel(rem, path), md |-> MdDelete(md, k),
              dc |-> <<>>, err |-> "nil", rerr |-> err, rcalls |-> 1]

\* GCSDatastore.Delete: ErrObjectNotExist from the bucket is not an error
DeleteCall(rem, md, dc, k, fault) ==
    LET path == GCSPath(k)
        err  == IF fault # "none" THEN "transport"
                ELSE IF path \in DOMAIN rem THEN "nil" ELSE "ErrObjectNotExist"
    IN  IF err # "nil" /\ err # "ErrObjectNotExist"
        THEN [rem |-> rem, md |-> md, dc |-> dc, err |-> err, rerr |-> err, rcalls |-> 1]
        ELSE [rem |-> MapDel(rem, path), md |-> MdDelete(md, k),
              dc |-> LruRemove(dc, k), err |-> "nil", rerr |-> err, rcalls |-> 1]

\* the loop of LoadMetadata over the objects listed
RECURSIVE LoadLoop(_, _, _)
LoadLoop(rem, md, names) ==
    IF names = <<>> THEN md
    ELSE LoadLoop(rem,
                  MdPut(md, TrimPrefix(Head(names), cfg.Prefix), Len(rem[Head(names)])),
                  Tail(names))

\* LoadMetadata recording the first object of the listing only
LoadCallFirstOnly(rem, md, failAt) ==
    LET names == Listing(rem, cfg.Prefix)
        seen  == IF failAt >= 0 THEN SubSeq(names, 1, failAt)
                 ELSE IF names = <<>> THEN names ELSE <<Head(names)>>
    IN  [md |-> LoadLoop(rem, md, seen),
         err |-> IF failAt < 0 THEN "nil" ELSE "transport",
         keys |-> { TrimPrefix(seen[i], cfg.Prefix) : i \in 1 .. Len(seen) },
         rcalls |-> Len(seen) + 1]

\* GCSDatastore.LoadMetadata: failAt < 0 when the listing reaches iterator.Done,
\* else the number of objects listed before it.Next() fails
LoadCall(rem, md, failAt) ==
    LET names == Listing(rem, cfg.Prefix)
        seen  == IF failAt < 0 THEN names ELSE SubSeq(names, 1, failAt)
    IN  [md |-> LoadLoop(rem, md, seen),
         err |-> IF failAt < 0 THEN "nil" ELSE "transport",
         keys |-> { TrimPrefix(seen[i], cfg.Prefix) : i \in 1 .. Len(seen) },
         rcalls |-> Len(seen) + 1]

\* the guard asking for orderings and filters together
QueryRejectedBoth(nOrders, nFilters) == nOrders > 0 /\ nFilters > 0

\* the guard of GCSDatastore.Query
QueryRejected(nOrders, nFilters) == nOrders > 0 \/ nFilters > 0

\* the records of the index that start with the prefix
Matching(md, prefix) == [k \in { x \in DOMAIN md : HasPrefix(x, prefix) } |-> md[k]]

NoQuery ==
    [open |-> FALSE, values |-> <<>>, i |-> 0, keysOnly |-> TRUE, prefix |-> <<>>,
     limit |-> 0, match |-> EmptyMap, nOut |-> 0, done |-> FALSE, endErr |-> "nil"]

\* GCSDatastore.Query: the Results, a cursor i over the Iterator's snapshot
\* values (match remembers the records of the index that matched the prefix
\* then, nOut counts the entries the consumer was given)
QueryCall(md, order, prefix, keysOnly, limit) ==
    [open |-> TRUE, values |-> Iterator(md, order, prefix, limit), i |-> 0,
     keysOnly |-> keysOnly, prefix |-> prefix, limit |-> limit,
     match |-> Matching(md, prefix),
     nOut |-> 0, done |-> FALSE, endErr |-> "nil"]

\* nextValue reading the size of an entry from the index as it is now
NextValueCurrentSize(q, rem, dc, fault, n) ==
    IF q.i >= Len(q.values)
    THEN [q |-> [q EXCEPT !.done = TRUE, !.endErr = "ErrNotFound"], dc |-> dc,
          ok |-> FALSE, err |-> "ErrNotFound", key |-> <<>>, size |-> -1,
          data |-> <<>>, hydrated |-> FALSE, rcalls |-> 0, fault |-> "none"]
    ELSE LET v == q.values[q.i + 1]
             sz == IF v.Key \in DOMAIN mdCache THEN mdCache[v.Key].Size ELSE 0
             g == GetCall(rem, dc, NewKey(v.Key), fault, n)
         IN  IF q.keysOnly
             THEN [q |-> [q EXCEPT !.i = q.i + 1, !.nOut = q.nOut + 1], dc |-> dc,
                   ok |-> TRUE, err |-> "nil", key |-> v.Key, size |-> sz,
                   data |-> <<>>, hydrated |-> FALSE, rcalls |-> 0, fault |-> "none"]
             ELSE IF g.err # "nil"
             THEN [q |-> [q EXCEPT !.i = q.i + 1, !.done = TRUE, !.endErr = g.err],
                   dc |-> g.dc, ok |-> FALSE, err |-> g.err, key |-> <<>>, size |-> -1,
                   data |-> <<>>, hydrated |-> FALSE, rcalls |-> g.rcalls, fault |-> g.fault]
             ELSE [q |-> [q EXCEPT !.i = q.i + 1, !.nOut = q.nOut + 1], dc |-> g.dc,
                   ok |-> TRUE, err |-> "nil", key |-> v.Key, size |-> sz,
                   data |-> g.data, hydrated |-> TRUE, rcalls |-> g.rcalls, fault |-> g.fault]

\* the closure reading the size of the entry from the map as it is now, and
\* skipping to the end when the map no longer holds the key
IterClosureLive(q) ==
    IF q.i >= Len(q.values) \/ q.values[q.i + 1].Key \notin DOMAIN mdCache
    THEN [q |-> [q EXCEPT !.done = TRUE], ok |-> FALSE, key |-> <<>>, size |-> -1]
    ELSE [q |-> [q EXCEPT !.i = q.i + 1, !.nOut = q.nOut + 1], ok |-> TRUE,
          key |-> q.values[q.i + 1].Key, size |-> mdCache[q.values[q.i + 1].Key].Size]

\* the closure starting over once it has reported the end
IterClosureRestart(q) ==
    IF q.i >= Len(q.values)
    THEN [q |-> [q EXCEPT !.done = TRUE, !.i = 0], ok |-> FALSE, key |-> <<>>, size |-> -1]
    ELSE [q |-> [q EXCEPT !.i = q.i + 1, !.nOut = q.nOut + 1], ok |-> TRUE,
          key |-> q.values[q.i + 1].Key, size |-> q.values[q.i + 1].Size]

\* the closure Iterator returns, called once: nil (ok = FALSE) when the cursor
\* is at the end of the snapshot, else the entry under the cursor
IterClosure(q) ==
    IF q.i >= Len(q.values)
    THEN [q |-> [q EXCEPT !.done = TRUE], ok |-> FALSE, key |-> <<>>, size |-> -1]
    ELSE [q |-> [q EXCEPT !.i = q.i + 1, !.nOut = q.nOut + 1], ok |-> TRUE,
          key |-> q.values[q.i + 1].Key, size |-> q.values[q.i + 1].Size]

\* nextValue fetching the value whether or not it was asked for
NextValueAlwaysFetches(q, rem, dc, fault, n) ==
    IF q.i >= Len(q.values)
    THEN [q |-> [q EXCEPT !.done = TRUE, !.endErr = "ErrNotFound"], dc |-> dc,
          ok |-> FALSE, err |-> "ErrNotFound", key |-> <<>>, size |-> -1,
          data |-> <<>>, hydrated |-> FALSE, rcalls |-> 0, fault |-> "none"]
    ELSE LET v == q.values[q.i + 1]
             q1 == [q EXCEPT !.i = q.i + 1]
             g == GetCall(rem, dc, NewKey(v.Key), fault, n)
         IN  IF g.err # "nil" /\ ~q.keysOnly
             THEN [q |-> [q1 EXCEPT !.done = TRUE, !.endErr = g.err], dc |-> g.dc,
                   ok |-> FALSE, err |-> g.err, key |-> <<>>, size |-> -1,
                   data |-> <<>>, hydrated |-> FALSE,
                   rcalls |-> g.rcalls, fault |-> g.fault]
             ELSE [q |-> [q1 EXCEPT !.nOut = q.nOut + 1], dc |-> g.dc,
                   ok |-> TRUE, err |-> "nil", key |-> v.Key, size |-> v.Size,
                   data |-> IF q.keysOnly THEN <<>> ELSE g.data, hydrated |-> ~q.keysOnly,
                   rcalls |-> g.rcalls, fault |-> g.fault]

\* one call of nextValue by the consumer of the Results: q the cursor.  The
\* result is (Result{Error: err}, false) or (Result{Entry: entry}, true); the
\* consumer stops at the first result that comes with ok = false
NextValue(q, rem, dc, fault, n) ==
    IF q.i >= Len(q.values)
    THEN [q |-> [q EXCEPT !.done = TRUE, !.endErr = "ErrNotFound"], dc |-> dc,
          ok |-> FALSE, err |-> "ErrNotFound", key |-> <<>>, size |-> -1,
          data |-> <<>>, hydrated |-> FALSE, rcalls |-> 0, fault |-> "none"]
    ELSE LET v == q.values[q.i + 1]
             q1 == [q EXCEPT !.i = q.i + 1]
         IN  IF q.keysOnly
             THEN [q |-> [q1 EXCEPT !.nOut = q.nOut + 1], dc |-> dc,
                   ok |-> TRUE, err |-> "nil", key |-> v.Key, size |-> v.Size,
                   data |-> <<>>, hydrated |-> FALSE, rcalls |-> 0, fault |-> "none"]
             ELSE LET g == GetCall(rem, dc, NewKey(v.Key), fault, n)
                  IN  IF g.err # "nil"
                      THEN [q |-> [q1 EXCEPT !.done = TRUE, !.endErr = g.err], dc |-> g.dc,
                            ok |-> FALSE, err |-> g.err, key |-> <<>>, size |-> -1,
                            data |-> <<>>, hydrated |-> FALSE,
                            rcalls |-> g.rcalls, fault |-> g.fault]
                      ELSE [q |-> [q1 EXCEPT !.nOut = q.nOut + 1], dc |-> g.dc,
                            ok |-> TRUE, err |-> "nil", key |-> v.Key, size |-> v.Size,
                            data |-> g.data, hydrated |-> TRUE,
                            rcalls |-> g.rcalls, fault |-> g.fault]

----------------------------------------------------------------------------
(* The plugin's configuration parser (DatastoreConfigParser).  A value of  *)
(* the map is absent, a string, a bool, an int, or a float64; a float64 is *)
(* counted in halves (n = 3 is 1.5), an int in units.                      *)

\* largest number, in halves, given for workers and cachesize
MaxHalf == 3

defaultWorkers == 100
defaultCacheSize == 40000
defaultPrefix == "ipfs/"

Absent == [t |-> "absent", s |-> "", n |-> 0]
StringVal(s) == [t |-> "string", s |-> s, n |-> 0]
FloatVal(h) == [t |-> "float64", s |-> "", n |-> h]
IntVal(i) == [t |-> "int", s |-> "", n |-> i]
BoolVal == [t |-> "bool", s |-> "", n |-> 0]

\* int(w) for a float64 of h halves: the fraction is dropped, towards zero
IntOfFloat(h) == IF h >= 0 THEN h \div 2 ELSE -((-h) \div 2)

\* the outcomes of the parser
ParseError(msg) == [kind |-> "error", msg |-> msg, Bucket |-> "", Prefix |-> "",
                    Workers |-> 0, DataCacheItems |-> 0]
ParsePanic == [kind |-> "panic", msg |-> "", Bucket |-> "", Prefix |-> "",
               Workers |-> 0, DataCacheItems |-> 0]
ParseConfig(bucket, prefix, workers, cacheSize) ==
    [kind |-> "config", msg |-> "", Bucket |-> bucket, Prefix |-> prefix,
     Workers |-> workers, DataCacheItems |-> cacheSize]

\* the parsing of workers and of cachesize: the number, or 0 with an error
ParseCount(v, default) ==
    IF v.t = "absent" THEN [n |-> default, err |-> "nil"]
    ELSE IF v.t \notin {"float64", "int"} THEN [n |-> 0, err |-> "not a number"]
    ELSE LET n == IF v.t = "float64" THEN IntOfFloat(v.n) ELSE v.n
         IN  IF n <= 0 THEN [n |-> 0, err |-> "<= 0"] ELSE [n |-> n, err |-> "nil"]

\* GCSPlugin.DatastoreConfigParser: the function it returns, applied to m
DatastoreConfigParser(m) ==
    LET w == ParseCount(m.workers, defaultWorkers)
        c == ParseCount(m.cachesize, defaultCacheSize)
    IN  IF m.bucket.t # "string" THEN ParseError("no bucket specified")
        ELSE IF m.prefix.t \notin {"absent", "string"} THEN ParsePanic
        ELSE IF w.err # "nil" THEN ParseError("workers " \o w.err)
        ELSE IF c.err # "nil" THEN ParseError("cachesize " \o c.err)
        ELSE ParseConfig(m.bucket.s,
                         IF m.prefix.t = "absent" THEN defaultPrefix ELSE m.prefix.s,
                         w.n, c.n)

\* the maps given to the parser
BucketVals == {Absent, StringVal(""), StringVal("b"), FloatVal(2)}
PrefixVals == {Absent, StringVal("ipfs"), FloatVal(2), BoolVal}
CountVals ==
    {Absent, StringVal("4"), BoolVal, IntVal(0), IntVal(2)}
        \cup { FloatVal(h) : h \in -1 .. MaxHalf }
ConfigMaps == [bucket : BucketVals, prefix : PrefixVals, workers : CountVals,
               cachesize : CountVals]

NoParse == [called |-> FALSE,
            m |-> [bucket |-> Absent, prefix |-> Absent, workers |-> Absent,
                   cachesize |-> Absent],
            out |-> ParseError("")]

----------------------------------------------------------------------------
(* Concurrent callers.                                                     *)

\* calls started in all, by all callers
MaxCalls == 3

\* the callers (goroutines) that call the adapter at the same time
Procs == {1, 2}

IdleProc == [op |-> "idle", key |-> <<>>, val |-> <<>>, pc |-> "idle",
             visited |-> {}, vals |-> <<>>, seen |-> {}]

ConcIdle == [proc |-> [p \in Procs |-> IdleProc], calls |-> 0, crashed |-> FALSE]

----------------------------------------------------------------------------
(* History kept for the properties: per key, "never" (no successful Put of *)
(* it and no bulk-load record), "put" with the value of the last call on   *)
(* it, a successful Put, "deleted" after a successful Delete with no       *)
(* successful Put or bulk-load since, and "other".                         *)

HistPut(h, k, v, err) ==
    IF err = "nil" THEN [h EXCEPT ![k] = [st |-> "put", val |-> v]]
    ELSE IF h[k].st = "put" THEN [h EXCEPT ![k] = [st |-> "other", val |-> <<>>]]
    ELSE h

HistDelete(h, k, err) ==
    IF err = "nil" THEN [h EXCEPT ![k] = [st |-> "deleted", val |-> <<>>]]
    ELSE IF h[k].st = "put" THEN [h EXCEPT ![k] = [st |-> "other", val |-> <<>>]]
    ELSE h

HistLoad(h, keys) ==
    [k \in Keys |-> IF k \in keys /\ h[k].st \in {"never", "deleted"}
                    THEN [st |-> "other", val |-> <<>>]
                    ELSE h[k]]

----------------------------------------------------------------------------
(* Construction: NewGCSDatastore, and the plugin's Create in its two       *)
(* versions ("newer": unnamed/part_001, "older": plugin/plugin.go).        *)
(* events lists what was called, in the order of the calls.                *)

\* NewGCSDatastore: storage.NewClient, then lru.New (an error for a size that
\* is not positive), then CheckBucket (a call to the bucket)
NewGCSDatastoreCall(capacity, clientFault, bucketFault) ==
    IF clientFault
    THEN [ok |-> FALSE, err |-> "client", events |-> <<"NewClient">>]
    ELSE IF capacity <= 0
    THEN [ok |-> FALSE, err |-> "lru", events |-> <<"NewClient", "lru.New">>]
    ELSE IF bucketFault
    THEN [ok |-> FALSE, err |-> "bucket", events |-> <<"NewClient", "lru.New", "CheckBucket">>]
    ELSE [ok |-> TRUE, err |-> "nil", events |-> <<"NewClient", "lru.New", "CheckBucket">>]

\* GcsConfig.Create.  The newer version returns the error of NewGCSDatastore;
\* the older one does not look at it and calls LoadMetadata on the nil
\* adapter, which panics when it reads gd.Config.
CreateCall(variant, rem, capacity, clientFault, bucketFault, failAt) ==
    LET c == NewGCSDatastoreCall(capacity, clientFault, bucketFault)
        l == LoadCall(rem, NewMetadataCache, failAt)
    IN  IF ~c.ok /\ variant = "newer"
        THEN [returned |-> FALSE, err |-> c.err, panic |-> FALSE, events |-> c.events,
              md |-> NewMetadataCache, keys |-> {}, built |-> FALSE]
        ELSE IF ~c.ok
        THEN [returned |-> FALSE, err |-> "nil", panic |-> TRUE,
              events |-> Append(c.events, "LoadMetadata"),
              md |-> NewMetadataCache, keys |-> {}, built |-> FALSE]
        ELSE [returned |-> l.err = "nil", err |-> l.err, panic |-> FALSE,
              events |-> Append(c.events, "LoadMetadata"),
              md |-> l.md, keys |-> l.keys, built |-> TRUE]

NoCreate ==
    [called |-> FALSE, variant |-> "none", returned |-> FALSE, err |-> "nil",
     panic |-> FALSE, events |-> <<>>, built |-> FALSE]

----------------------------------------------------------------------------
(* The state machine.                                                      *)

\* the bucket as an earlier adapter with the same prefix left it: some keys
\* stored under GCSPath; the adapter as NewGCSDatastore returns it
Init ==
    /\ cfg \in [Prefix : Prefixes, DataCacheItems : {CacheItems}]
    /\ \E S \in SUBSET Keys :
          remote = [nm \in { PathJoin(cfg.Prefix, k) : k \in S } |->
                      StoredValue(CHOOSE k \in S : PathJoin(cfg.Prefix, k) = nm)]
    /\ mdCache = NewMetadataCache
    /\ dataCache = <<>>
    /\ qit = NoQuery
    /\ last = Ret("Init", <<>>, "nil", FALSE, -1, <<>>, "nil", 0, "none")
    /\ hist = [k \in Keys |-> [st |-> "never", val |-> <<>>]]
    /\ phase = "new"
    /\ parse = NoParse
    /\ conc = ConcIdle
    /\ create = NoCreate

Put(k, value, fault) ==
    LET r == PutCall(remote, mdCache, dataCache, k, value, fault) IN
    /\ remote' = r.rem
    /\ mdCache' = r.md
    /\ dataCache' = r.dc
    /\ last' = Ret("Put", k, r.err, FALSE, -1, <<>>, r.err, r.rcalls, fault)
    /\ hist' = HistPut(hist, k, value, r.err)
    /\ phase' = "used"
    /\ UNCHANGED <<cfg, create, qit, parse, conc>>

Get(k, fault, n) ==
    LET r == GetCall(remote, dataCache, k, fault, n) IN
    /\ dataCache' = r.dc
    /\ last' = Ret("Get", k, r.err, FALSE, -1, r.data, r.err, r.rcalls, r.fault)
    /\ UNCHANGED <<cfg, create, remote, mdCache, qit, hist, phase, parse, conc>>

Has(k) ==
    LET r == HasCall(mdCache, k) IN
    /\ last' = Ret("Has", k, r.err, r.has, -1, <<>>, "nil", r.rcalls, "none")
    /\ UNCHANGED <<cfg, create, remote, mdCache, dataCache, qit, hist, phase, parse, conc>>

GetSize(k) ==
    LET r == GetSizeCall(mdCache, k) IN
    /\ last' = Ret("GetSize", k, r.err, FALSE, r.size, <<>>, "nil", r.rcalls, "none")
    /\ UNCHANGED <<cfg, create, remote, mdCache, dataCache, qit, hist, phase, parse, conc>>

Delete(k, fault) ==
    LET r == DeleteCall(remote, mdCache, dataCache, k, fault) IN
    /\ remote' = r.rem
    /\ mdCache' = r.md
    /\ dataCache' = r.dc
    /\ last' = [Ret("Delete", k, r.err, FALSE, -1, <<>>, r.rerr, r.rcalls, fault)
                  EXCEPT !.again = (last.op = "Delete" /\ last.err = "nil" /\ last.key = k)]
    /\ hist' = HistDelete(hist, k, r.err)
    /\ phase' = "used"
    /\ UNCHANGED <<cfg, create, qit, parse, conc>>

LoadMetadata(failAt) ==
    LET r == LoadCall(remote, mdCache, failAt) IN
    /\ failAt <= Len(Listing(remote, cfg.Prefix))
    /\ mdCache' = r.md
    /\ last' = Ret("LoadMetadata", <<>>, r.err, FALSE, -1, <<>>, r.err, r.rcalls,
                   IF failAt < 0 THEN "none" ELSE "list")
    /\ hist' = HistLoad(hist, r.keys)
    /\ phase' = IF r.err = "nil" /\ phase = "new" THEN "loaded" ELSE phase
    /\ UNCHANGED <<cfg, create, remote, dataCache, qit, parse, conc>>

Query(prefix, keysOnly, limit, nOrders, nFilters, order) ==
    /\ IF QueryRejected(nOrders, nFilters)
       THEN /\ last' = [Ret("Query", <<>>, "unsupported", FALSE, -1, <<>>, "nil", 0, "none")
                         EXCEPT !.clauses = nOrders + nFilters]
            /\ qit' = qit
       ELSE /\ last' = [Ret("Query", <<>>, "nil", FALSE, -1, <<>>, "nil", 0, "none")
                         EXCEPT !.clauses = nOrders + nFilters]
            /\ qit' = QueryCall(mdCache, order, prefix, keysOnly, limit)
    /\ UNCHANGED <<cfg, create, remote, mdCache, dataCache, hist, phase, parse, conc>>

QueryNext(fault, n) ==
    /\ qit.open /\ ~qit.done
    /\ LET r == NextValue(qit, remote, dataCache, fault, n) IN
          /\ qit' = r.q
          /\ dataCache' = r.dc
          /\ last' = Ret("QueryNext", r.key, r.err, r.hydrated, r.size, r.data, r.err,
                         r.rcalls, r.fault)
    /\ UNCHANGED <<cfg, create, remote, mdCache, hist, phase, parse, conc>>

\* somebody else writes or deletes an object of the bucket
ExternalWrite(k, value) ==
    /\ remote' = MapPut(remote, GCSPath(k), value)
    /\ last' = Ret("External", k, "nil", FALSE, -1, <<>>, "nil", 0, "none")
    /\ UNCHANGED <<cfg, create, mdCache, dataCache, qit, hist, phase, parse, conc>>

ExternalDelete(k) ==
    /\ remote' = MapDel(remote, GCSPath(k))
    /\ last' = Ret("External", k, "nil", FALSE, -1, <<>>, "nil", 0, "none")
    /\ UNCHANGED <<cfg, create, mdCache, dataCache, qit, hist, phase, parse, conc>>

PutFaults == {"none", "transport"}
GetFaults == {"none", "attrs", "reader", "read"}
ReadCuts == {0, 1}

DoPut == \E k \in Keys, v \in Values, f \in PutFaults : Put(k, v, f)

DoGet == \E k \in Keys, f \in GetFaults, n \in ReadCuts : (f = "read" \/ n = 0) /\ Get(k, f, n)

DoHas == \E k \in Keys : Has(k)

DoGetSize == \E k \in Keys : GetSize(k)

DoDelete == \E k \in Keys, f \in PutFaults : Delete(k, f)

DoLoadMetadata == \E failAt \in -1 .. Cardinality(Keys) : LoadMetadata(failAt)

DoQuery ==
    \E prefix \in QueryPrefixes, keysOnly \in BOOLEAN, limit \in Limits,
       nOrders \in {0, 1}, nFilters \in {0, 1} :
        \E order \in (IF QueryRejected(nOrders, nFilters)
                      THEN {<<>>} ELSE Orderings(DOMAIN mdCache)) :
            Query(prefix, keysOnly, limit, nOrders, nFilters, order)

DoQueryNext ==
    \E f \in GetFaults, n \in ReadCuts : (f = "read" \/ n = 0) /\ QueryNext(f, n)

DoExternalWrite == \E k \in Keys : ExternalWrite(k, StoredValue(k))

DoExternalDelete == \E k \in Keys : ExternalDelete(k)

----------------------------------------------------------------------------
(* Concurrent callers.  A call is a sequence of steps: the remote call,    *)
(* the call of the MetadataCache (entered, then left), the call of the     *)
(* lru.Cache; Iterator is left after one step per entry of the map.        *)
(* MetadataCache holds no lock: a caller is inside it from the step that   *)
(* enters to the step that leaves.  lru.Cache locks itself: one step.      *)

\* p is inside a method of MetadataCache
Inside(p) == conc.proc[p].pc \in {"mdIn", "iter"}

\* the method p is inside writes the map
Writes(p) == conc.proc[p].pc = "mdIn"

\* the callers whose Query has been called and has not returned
Querying == { q \in Procs : conc.proc[q].op = "Query" /\ conc.proc[q].pc \in {"call", "iter"} }

CanStart(p) ==
    /\ ~conc.crashed
    /\ conc.proc[p].pc \in {"idle", "done"}
    /\ conc.calls < MaxCalls

Started(p, op, key, val, pc) ==
    [conc EXCEPT !.proc[p] = [IdleProc EXCEPT !.op = op, !.key = key, !.val = val, !.pc = pc],
                 !.calls = conc.calls + 1]

\* Put and Delete are called: what follows is the remote call
StartPut(p, k, v) ==
    /\ CanStart(p)
    /\ conc' = Started(p, "Put", k, v, "remote")
    /\ UNCHANGED <<cfg, create, remote, mdCache, dataCache, qit, last, hist, phase, parse>>

StartDelete(p, k) ==
    /\ CanStart(p)
    /\ conc' = Started(p, "Delete", k, <<>>, "remote")
    /\ UNCHANGED <<cfg, create, remote, mdCache, dataCache, qit, last, hist, phase, parse>>

\* Query{} is called: what follows is mdCache.Iterator("", 0)
StartQuery(p) ==
    /\ CanStart(p)
    /\ conc' = [Started(p, "Query", <<>>, <<>>, "call") EXCEPT !.proc[p].seen = {mdCache}]
    /\ UNCHANGED <<cfg, create, remote, mdCache, dataCache, qit, last, hist, phase, parse>>

\* w.Close() of Put and Object.Delete of Delete, the bucket answering
RemoteStep(p) ==
    LET pr == conc.proc[p] IN
    /\ ~conc.crashed /\ pr.pc = "remote"
    /\ remote' = IF pr.op = "Put" THEN MapPut(remote, GCSPath(pr.key), pr.val)
                                  ELSE MapDel(remote, GCSPath(pr.key))
    /\ conc' = [conc EXCEPT !.proc[p].pc = "md"]
    /\ UNCHANGED <<cfg, create, mdCache, dataCache, qit, last, hist, phase, parse>>

\* mdCache.Put, mdCache.Delete or mdCache.Iterator is entered
MdEnter(p) ==
    LET pr == conc.proc[p] IN
    /\ ~conc.crashed /\ pr.pc \in {"md", "call"}
    /\ conc' = [conc EXCEPT !.proc[p].pc = IF pr.pc = "md" THEN "mdIn" ELSE "iter"]
    /\ UNCHANGED <<cfg, create, remote, mdCache, dataCache, qit, last, hist, phase, parse>>

\* mdCache.Put or mdCache.Delete writes the map and returns.  With another
\* caller inside the MetadataCache this is a data race on the map: the write
\* takes place, or the runtime stops the program (crash = TRUE)
MdExit(p, crash) ==
    LET pr == conc.proc[p]
        md == IF pr.op = "Put" THEN MdPut(mdCache, pr.key, Len(pr.val))
                               ELSE MdDelete(mdCache, pr.key)
    IN  /\ ~conc.crashed /\ pr.pc = "mdIn"
        /\ crash => \E q \in Procs \ {p} : Inside(q)
        /\ mdCache' = IF crash THEN mdCache ELSE md
        /\ conc' = [conc EXCEPT
                       !.crashed = crash,
                       !.proc = [q \in Procs |->
                                    IF q = p THEN [pr EXCEPT !.pc = "cache"]
                                    ELSE IF q \in Querying /\ ~crash
                                    THEN [conc.proc[q] EXCEPT !.seen = @ \cup {md}]
                                    ELSE conc.proc[q]]]
        /\ UNCHANGED <<cfg, create, remote, dataCache, qit, last, hist, phase, parse>>

\* one turn of the loop of Iterator: an entry of the map not yet visited
IterStep(p, k) ==
    LET pr == conc.proc[p] IN
    /\ ~conc.crashed /\ pr.pc = "iter"
    /\ k \in DOMAIN mdCache /\ k \notin pr.visited
    /\ conc' = [conc EXCEPT !.proc[p].visited = pr.visited \cup {k},
                             !.proc[p].vals = Append(pr.vals, mdCache[k])]
    /\ UNCHANGED <<cfg, create, remote, mdCache, dataCache, qit, last, hist, phase, parse>>

\* the loop of Iterator ends: no entry of the map is left to visit; Query
\* returns the Results over the snapshot vals
IterEnd(p) ==
    LET pr == conc.proc[p] IN
    /\ ~conc.crashed /\ pr.pc = "iter"
    /\ DOMAIN mdCache \subseteq pr.visited
    /\ conc' = [conc EXCEPT !.proc[p].pc = "done"]
    /\ UNCHANGED <<cfg, create, remote, mdCache, dataCache, qit, last, hist, phase, parse>>

\* dataCache.Add of Put, dataCache.Remove of Delete; the call returns
CacheStep(p) ==
    LET pr == conc.proc[p] IN
    /\ ~conc.crashed /\ pr.pc = "cache"
    /\ dataCache' = IF pr.op = "Put"
                     THEN LruAdd(dataCache, cfg.DataCacheItems, pr.key, pr.val)
                     ELSE LruRemove(dataCache, pr.key)
    /\ conc' = [conc EXCEPT !.proc[p].pc = "done"]
    /\ UNCHANGED <<cfg, create, remote, mdCache, qit, last, hist, phase, parse>>

\* Get is called: dataCache.Get(key); a hit returns the cached bytes, after
\* a miss what follows is obj.Attrs
StartGet(p, k) ==
    /\ CanStart(p)
    /\ IF LruContains(dataCache, k)
       THEN /\ conc' = Started(p, "Get", k, LruValue(dataCache, k), "done")
            /\ dataCache' = LruTouch(dataCache, k)
       ELSE /\ conc' = Started(p, "Get", k, <<>>, "probe")
            /\ dataCache' = dataCache
    /\ UNCHANGED <<cfg, create, remote, mdCache, qit, last, hist, phase, parse>>

\* obj.Attrs of Get, the bucket answering: without the object Get returns
\* ds.ErrNotFound
GetProbe(p) ==
    LET pr == conc.proc[p] IN
    /\ ~conc.crashed /\ pr.op = "Get" /\ pr.pc = "probe"
    /\ conc' = [conc EXCEPT !.proc[p].pc =
                    IF GCSPath(pr.key) \in DOMAIN remote THEN "read" ELSE "done"]
    /\ UNCHANGED <<cfg, create, remote, mdCache, dataCache, qit, last, hist, phase, parse>>

\* obj.NewReader and buf.ReadFrom of Get, the bucket answering: the content
\* the object has now; without the object NewReader fails and Get returns
GetRead(p) ==
    LET pr == conc.proc[p] IN
    /\ ~conc.crashed /\ pr.op = "Get" /\ pr.pc = "read"
    /\ conc' = IF GCSPath(pr.key) \in DOMAIN remote
               THEN [conc EXCEPT !.proc[p].val = remote[GCSPath(pr.key)],
                                 !.proc[p].pc = "add"]
               ELSE [conc EXCEPT !.proc[p].pc = "done"]
    /\ UNCHANGED <<cfg, create, remote, mdCache, dataCache, qit, last, hist, phase, parse>>

\* dataCache.Add(key, data) of Get; Get returns data
GetAdd(p) ==
    LET pr == conc.proc[p] IN
    /\ ~conc.crashed /\ pr.op = "Get" /\ pr.pc = "add"
    /\ dataCache' = LruAdd(dataCache, cfg.DataCacheItems, pr.key, pr.val)
    /\ conc' = [conc EXCEPT !.proc[p].pc = "done"]
    /\ UNCHANGED <<cfg, create, remote, mdCache, qit, last, hist, phase, parse>>

\* a Put or a Delete has been called and has not returned
WriterBusy ==
    \E q \in Procs : conc.proc[q].op \in {"Put", "Delete"}
                       /\ conc.proc[q].pc \notin {"idle", "done"}

DoStartPut == \E p \in Procs, k \in Keys, v \in Values : StartPut(p, k, v)

DoStartGet == \E p \in Procs, k \in Keys : StartGet(p, k)

DoGetProbe == \E p \in Procs : GetProbe(p)

DoGetRead == \E p \in Procs : GetRead(p)

DoGetAdd == \E p \in Procs : GetAdd(p)


DoStartDelete == \E p \in Procs, k \in Keys : StartDelete(p, k)

DoStartQuery == \E p \in Procs : StartQuery(p)

DoRemoteStep == \E p \in Procs : RemoteStep(p)

DoMdEnter == \E p \in Procs : MdEnter(p)

DoMdExit == \E p \in Procs, crash \in BOOLEAN : MdExit(p, crash)

DoIterStep == \E p \in Procs, k \in Keys : IterStep(p, k)

DoIterEnd == \E p \in Procs : IterEnd(p)

DoCacheStep == \E p \in Procs : CacheStep(p)

\* Put and Delete one at a time, so that only Gets overlap other calls
RacePut == ~WriterBusy /\ DoStartPut

RaceDelete == ~WriterBusy /\ DoStartDelete

----------------------------------------------------------------------------
(* The MetadataCache called directly, as its tests call it: its methods,   *)
(* the iterator and the closure the iterator returns.                      *)

\* the sizes recorded
IndexSizes == { Len(v) : v \in Values }

\* the limits given to Iterator: none (zero or negative) and positive ones
IndexLimits == -1 .. MaxLimit

IndexPut(k, size) ==
    /\ mdCache' = MdPut(mdCache, k, size)
    /\ last' = Ret("IndexPut", k, "nil", FALSE, size, <<>>, "nil", 0, "none")
    /\ UNCHANGED <<cfg, create, remote, dataCache, qit, hist, phase, parse, conc>>

IndexDelete(k) ==
    /\ mdCache' = MdDelete(mdCache, k)
    /\ last' = Ret("IndexDelete", k, "nil", FALSE, -1, <<>>, "nil", 0, "none")
    /\ UNCHANGED <<cfg, create, remote, dataCache, qit, hist, phase, parse, conc>>

IndexHas(k) ==
    /\ last' = Ret("IndexHas", k, "nil", MdHas(mdCache, k), -1, <<>>, "nil", 0, "none")
    /\ UNCHANGED <<cfg, create, remote, mdCache, dataCache, qit, hist, phase, parse, conc>>

IndexGet(k) ==
    /\ last' = Ret("IndexGet", k, MdGet(mdCache, k).err, FALSE, MdGet(mdCache, k).md.Size,
                   <<>>, "nil", 0, "none")
    /\ UNCHANGED <<cfg, create, remote, mdCache, dataCache, qit, hist, phase, parse, conc>>

IndexSize ==
    /\ last' = Ret("IndexSize", <<>>, "nil", FALSE, MdSize(mdCache), <<>>, "nil", 0, "none")
    /\ UNCHANGED <<cfg, create, remote, mdCache, dataCache, qit, hist, phase, parse, conc>>

\* md.Iterator(prefix, limit): the closure, its cursor at the start.  (Query
\* with keysOnly hands out the entries of this closure as they are.)
IndexIterator(prefix, limit, order) ==
    /\ qit' = QueryCall(mdCache, order, prefix, TRUE, limit)
    /\ last' = Ret("IndexIterator", <<>>, "nil", FALSE, -1, <<>>, "nil", 0, "none")
    /\ UNCHANGED <<cfg, create, remote, mdCache, dataCache, hist, phase, parse, conc>>

\* the closure is called, before or after it has reported the end
IteratorNext ==
    LET r == IterClosure(qit) IN
    /\ qit.open /\ qit.keysOnly
    /\ qit' = r.q
    /\ last' = [Ret("IteratorNext", r.key, IF r.ok THEN "nil" ELSE "end", FALSE, r.size,
                    <<>>, "nil", 0, "none")
                  EXCEPT !.again = qit.done]
    /\ UNCHANGED <<cfg, create, remote, mdCache, dataCache, hist, phase, parse, conc>>

DoIndexPut == \E k \in Keys, size \in IndexSizes : IndexPut(k, size)

DoIndexDelete == \E k \in Keys : IndexDelete(k)

DoIndexHas == \E k \in Keys : IndexHas(k)

DoIndexGet == \E k \in Keys : IndexGet(k)

DoIndexIterator ==
    \E prefix \in QueryPrefixes, limit \in IndexLimits, order \in Orderings(DOMAIN mdCache) :
        IndexIterator(prefix, limit, order)

\* a Query that asks for the values, and its consumer, the bucket answering
DoQueryValues ==
    \E prefix \in QueryPrefixes, limit \in Limits, order \in Orderings(DOMAIN mdCache) :
        Query(prefix, FALSE, limit, 0, 0, order)

QueryValuesNext == ~qit.keysOnly /\ QueryNext("none", 0)

\* the host calls Create of the plugin
Create(variant, clientFault, bucketFault, failAt) ==
    LET r == CreateCall(variant, remote, cfg.DataCacheItems, clientFault, bucketFault, failAt) IN
    /\ ~create.called
    /\ failAt <= Len(Listing(remote, cfg.Prefix))
    /\ create' = [called |-> TRUE, variant |-> variant, returned |-> r.returned,
                  err |-> r.err, panic |-> r.panic, events |-> r.events,
                  built |-> r.built]
    /\ mdCache' = r.md
    /\ last' = Ret("Create", <<>>, r.err, FALSE, -1, <<>>, r.err, 0,
                   IF clientFault THEN "client" ELSE IF bucketFault THEN "bucket"
                   ELSE IF failAt >= 0 THEN "list" ELSE "none")
    /\ hist' = HistLoad(hist, r.keys)
    /\ phase' = IF r.returned THEN "loaded" ELSE phase
    /\ UNCHANGED <<cfg, remote, dataCache, qit, parse, conc>>

DoCreate ==
    \E variant \in {"newer", "older"}, clientFault \in BOOLEAN, bucketFault \in BOOLEAN,
       failAt \in -1 .. Cardinality(Keys) :
        Create(variant, clientFault, bucketFault, failAt)

\* the host uses the datastore Create returned
ServePut == create.returned /\ DoPut

ServeGet == create.returned /\ DoGet

ServeHas == create.returned /\ DoHas

ServeDelete == create.returned /\ DoDelete

\* the host hands a configuration map to the parser
Parse(m) ==
    /\ parse' = [called |-> TRUE, m |-> m, out |-> DatastoreConfigParser(m)]
    /\ UNCHANGED <<cfg, create, remote, mdCache, dataCache, qit, last, hist, phase, conc>>

DoParse == \E m \in ConfigMaps : Parse(m)

\* the adapter's calls, one at a time
Next ==
    \/ DoPut
    \/ DoGet
    \/ DoHas
    \/ DoGetSize
    \/ DoDelete
    \/ DoLoadMetadata

Spec == Init /\ [][Next]_vars

\* the calls that read or write the index, in a bucket that others write to
\* as well
NextExt ==
    \/ DoPut
    \/ DoHas
    \/ DoDelete
    \/ DoLoadMetadata
    \/ DoExternalWrite
    \/ DoExternalDelete

SpecExt == Init /\ [][NextExt]_vars

\* queries and their consumers among Puts and Deletes, on a bucket that is
\* empty when the adapter starts and that others delete from as well
InitQuery ==
    /\ Init
    /\ cfg.Prefix = <<"i", "p", "f", "s">>
    /\ remote = EmptyMap

\* once a consumer has seen the end of its results, the next call is a Query
QueryPut == ~qit.done /\ \E k \in Keys, f \in PutFaults : Put(k, StoredValue(k), f)

QueryDelete == ~qit.done /\ DoDelete

QueryExternalDelete == ~qit.done /\ DoExternalDelete

NextQuery ==
    \/ QueryPut
    \/ QueryDelete
    \/ DoQuery
    \/ DoQueryNext
    \/ QueryExternalDelete

SpecQuery == InitQuery /\ [][NextQuery]_vars

\* concurrent callers of an adapter as the plugin's Create returns it:
\* constructed, then bulk-loaded from what an earlier adapter stored
InitConc ==
    /\ cfg = [Prefix |-> <<"i", "p", "f", "s">>, DataCacheItems |-> CacheItems]
    /\ \E S \in SUBSET Keys :
          remote = [nm \in { PathJoin(cfg.Prefix, k) : k \in S } |->
                      StoredValue(CHOOSE k \in S : PathJoin(cfg.Prefix, k) = nm)]
    /\ mdCache = LoadCall(remote, NewMetadataCache, -1).md
    /\ dataCache = <<>>
    /\ qit = NoQuery
    /\ last = Ret("Init", <<>>, "nil", FALSE, -1, <<>>, "nil", 0, "none")
    /\ hist = [k \in Keys |-> [st |-> "never", val |-> <<>>]]
    /\ phase = "loaded"
    /\ parse = NoParse
    /\ conc = ConcIdle
    /\ create = NoCreate

NextConc ==
    \/ DoStartPut
    \/ DoStartDelete
    \/ DoStartQuery
    \/ DoRemoteStep
    \/ DoMdEnter
    \/ DoMdExit
    \/ DoIterStep
    \/ DoIterEnd
    \/ DoCacheStep

SpecConc == InitConc /\ [][NextConc]_vars

\* Gets running concurrently with each other and with one Put or Delete at a
\* time
NextRace ==
    \/ RacePut
    \/ RaceDelete
    \/ DoStartGet
    \/ DoGetProbe
    \/ DoGetRead
    \/ DoGetAdd
    \/ DoRemoteStep
    \/ DoMdEnter
    \/ DoMdExit
    \/ DoCacheStep

SpecRace == InitConc /\ [][NextRace]_vars

\* a MetadataCache called directly, and the queries over it: the index of an
\* adapter whose bucket holds the object of "/a" and of no other key
InitIndex ==
    /\ Init
    /\ cfg.Prefix = <<"i", "p", "f", "s">>
    /\ DOMAIN remote = { GCSPath(<<"/", "a">>) }

NextIndex ==
    \/ DoIndexPut
    \/ DoIndexDelete
    \/ DoIndexHas
    \/ DoIndexGet
    \/ IndexSize
    \/ DoIndexIterator
    \/ IteratorNext
    \/ DoQueryValues
    \/ QueryValuesNext

SpecIndex == InitIndex /\ [][NextIndex]_vars

\* an adapter whose data cache holds one key less than it is given: three
\* keys, on an empty bucket that answers every call
CacheKeys == Keys \cup { <<"/", "b">> }

InitCache ==
    /\ cfg = [Prefix |-> <<"i", "p", "f", "s">>, DataCacheItems |-> CacheItems + 1]
    /\ remote = EmptyMap
    /\ mdCache = NewMetadataCache
    /\ dataCache = <<>>
    /\ qit = NoQuery
    /\ last = Ret("Init", <<>>, "nil", FALSE, -1, <<>>, "nil", 0, "none")
    /\ hist = [k \in Keys |-> [st |-> "never", val |-> <<>>]]
    /\ phase = "new"
    /\ parse = NoParse
    /\ conc = ConcIdle
    /\ create = NoCreate

CachePut == \E k \in CacheKeys, v \in Values : Put(k, v, "none")

CacheGet == \E k \in CacheKeys : Get(k, "none", 0)

CacheDelete == \E k \in CacheKeys : Delete(k, "none")

NextCache ==
    \/ CachePut
    \/ CacheGet
    \/ CacheDelete

SpecCache == InitCache /\ [][NextCache]_vars

\* the plugin creating the datastore, with cache sizes that are and are not
\* positive, and the host using what it was given
InitCreate ==
    /\ cfg \in [Prefix : {<<"i", "p", "f", "s">>}, DataCacheItems : {-1, 0, CacheItems}]
    /\ \E S \in SUBSET Keys :
          remote = [nm \in { PathJoin(cfg.Prefix, k) : k \in S } |->
                      StoredValue(CHOOSE k \in S : PathJoin(cfg.Prefix, k) = nm)]
    /\ mdCache = NewMetadataCache
    /\ dataCache = <<>>
    /\ qit = NoQuery
    /\ last = Ret("Init", <<>>, "nil", FALSE, -1, <<>>, "nil", 0, "none")
    /\ hist = [k \in Keys |-> [st |-> "never", val |-> <<>>]]
    /\ phase = "new"
    /\ parse = NoParse
    /\ conc = ConcIdle
    /\ create = NoCreate

NextCreate ==
    \/ DoCreate
    \/ ServePut
    \/ ServeGet
    \/ ServeHas
    \/ ServeDelete

SpecCreate == InitCreate /\ [][NextCreate]_vars

\* the configuration parser on its own
InitConfig ==
    /\ Init
    /\ cfg.Prefix = <<"i", "p", "f", "s">>
    /\ remote = EmptyMap

NextConfig == DoParse

SpecConfig == InitConfig /\ [][NextConfig]_vars

----------------------------------------------------------------------------
(* Properties.  A property about what a call returns is stated of the state *)
(* that call leaves: `last` is the call and its results.  "The bucket      *)
(* answers" means last.fault = "none": the call met no failure of the      *)
(* bucket (failures in earlier calls are not excluded).                    *)

\* C1: after a successful Put(k, v) with no later Put or Delete of k, Has(k)
\* is true, GetSize(k) is Len(v), and Get(k), the bucket answering, returns v.
C1_PutThenRead ==
    (last.op \in {"Has", "GetSize", "Get"} /\ hist[last.key].st = "put") =>
        /\ last.op = "Has" => last.has
        /\ last.op = "GetSize" => last.err = "nil" /\ last.size = Len(hist[last.key].val)
        /\ (last.op = "Get" /\ last.fault = "none") =>
               last.err = "nil" /\ last.data = hist[last.key].val

\* C2: after a successful Delete(k), until a successful Put(k) or a bulk-load
\* that records k, k is in neither the index nor the cache, Has(k) is false,
\* GetSize(k) fails with ErrNotFound and Get(k), the bucket answering, fails
\* with ErrNotFound.
C2_DeleteThenRead ==
    /\ \A k \in Keys : hist[k].st = "deleted" =>
           ~MdHas(mdCache, k) /\ ~LruContains(dataCache, k)
    /\ (last.op \in {"Has", "GetSize", "Get"} /\ hist[last.key].st = "deleted") =>
           /\ last.op = "Has" => ~last.has
           /\ last.op = "GetSize" => last.err = "ErrNotFound"
           /\ (last.op = "Get" /\ last.fault = "none") => last.err = "ErrNotFound"

C2_Witness ==
    /\ last.op = "Get" /\ last.err = "ErrNotFound"
    /\ hist[last.key].st = "deleted"
    /\ \E k \in Keys : k # last.key /\ MdHas(mdCache, k)

\* C3: a Delete the bucket answers, with nil or with ErrObjectNotExist,
\* returns nil; a Delete(k) right after a successful Delete(k) finds no
\* object and leaves the bucket, the index and the cache as they were.
C3_DeleteIdempotent ==
    [][ (last'.op = "Delete" /\ last'.fault = "none") =>
            /\ last'.err = "nil"
            /\ last'.again = (last.op = "Delete" /\ last.err = "nil" /\ last.key = last'.key)
            /\ last'.again =>
                   /\ last'.rerr = "ErrObjectNotExist"
                   /\ remote' = remote /\ mdCache' = mdCache /\ dataCache' = dataCache
      ]_vars

C3_Witness ==
    /\ last.op = "Delete" /\ last.again
    /\ last.err = "nil" /\ last.rerr = "ErrObjectNotExist"
    /\ mdCache # EmptyMap /\ dataCache # <<>>

\* C4 as stated: for a key never Put through the adapter and never recorded
\* by bulk-load, Has is false, GetSize fails with ErrNotFound and Get fails
\* with ErrNotFound.
C4_NeverPut ==
    (last.op \in {"Has", "GetSize", "Get"} /\ hist[last.key].st = "never") =>
        /\ last.op = "Has" => ~last.has
        /\ last.op = "GetSize" => last.err = "ErrNotFound"
        /\ (last.op = "Get" /\ last.fault = "none") => last.err = "ErrNotFound"

\* C4 as amended: for such a key Has is false and GetSize fails with
\* ErrNotFound; Get, the bucket answering, fails with ErrNotFound exactly
\* when the bucket holds no object under the key's path, and else succeeds.
C4_NeverPutAmended ==
    (last.op \in {"Has", "GetSize", "Get"} /\ hist[last.key].st = "never") =>
        /\ last.op = "Has" => ~last.has
        /\ last.op = "GetSize" => last.err = "ErrNotFound"
        /\ (last.op = "Get" /\ last.fault = "none") =>
               /\ last.err \in {"nil", "ErrNotFound"}
               /\ last.err = "ErrNotFound" <=> GCSPath(last.key) \notin DOMAIN remote

C4_Witness ==
    /\ last.op = "Get" /\ last.err = "nil" /\ last.fault = "none"
    /\ hist[last.key].st = "never"
    /\ ~MdHas(mdCache, last.key)

\* C5: on an adapter that has bulk-loaded and issued no Put or Delete, every
\* key an earlier adapter stored is reported by Has, with its length by
\* GetSize and with its content by Get, the bucket answering.
C5_Reload ==
    (phase = "loaded" /\ last.op \in {"Has", "GetSize", "Get"}
        /\ GCSPath(last.key) \in DOMAIN remote) =>
        /\ last.op = "Has" => last.has
        /\ last.op = "GetSize" =>
               last.err = "nil" /\ last.size = Len(remote[GCSPath(last.key)])
        /\ (last.op = "Get" /\ last.fault = "none") =>
               last.err = "nil" /\ last.data = remote[GCSPath(last.key)]

\* the keys of the entries a consumed query gave its consumer
Produced(q) == { q.values[j].Key : j \in 1 .. q.nOut }

\* C6 as stated: a consumed query without limit gave exactly the keys of the
\* index that start with the prefix, whatever the bucket holds; with
\* limit > 0 it gave at most limit entries.  (Stated of the queries that met
\* no transport error and whose index did not change since the call.)
C6_QueryExact ==
    (qit.done /\ qit.endErr # "transport"
        /\ qit.match = Matching(mdCache, qit.prefix)) =>
        /\ qit.limit <= 0 => Produced(qit) = DOMAIN Matching(mdCache, qit.prefix)
        /\ qit.limit > 0 => qit.nOut <= qit.limit

\* C6 as amended: that holds of a keysOnly query whatever the bucket holds,
\* and of a query with values when every value was fetched; a keysOnly query
\* is never cut short, and no entry is given twice.
C6_QueryExactAmended ==
    qit.done =>
        /\ (qit.limit <= 0 /\ (qit.keysOnly \/ qit.i = qit.nOut)) =>
               /\ Produced(qit) = DOMAIN qit.match
               /\ Cardinality(Produced(qit)) = qit.nOut
        /\ qit.keysOnly => qit.i = qit.nOut /\ qit.nOut = Len(qit.values)
        /\ qit.limit > 0 => qit.nOut <= qit.limit

C6_Witness ==
    /\ qit.done /\ qit.limit <= 0 /\ qit.keysOnly
    /\ qit.nOut = 1
    /\ Cardinality(DOMAIN mdCache) = 2
    /\ \E k \in DOMAIN qit.match : GCSPath(k) \notin DOMAIN remote

\* C7: a Query with an ordering or a filter returns the unsupported-query
\* error and no Results, makes no remote call, and leaves the bucket, the
\* index and the cache as they were.
C7_QueryUnsupported ==
    [][ (last'.op = "Query" /\ last'.clauses > 0) =>
            /\ last'.err = "unsupported"
            /\ last'.rcalls = 0
            /\ qit' = qit
            /\ remote' = remote /\ mdCache' = mdCache /\ dataCache' = dataCache
      ]_vars

C7_Witness ==
    /\ last.op = "Query" /\ last.clauses > 0 /\ last.err = "unsupported"
    /\ mdCache # EmptyMap
    /\ ~qit.open

\* C8: a Put whose remote write fails returns that error and leaves the index
\* and the cache as they were.
C8_PutFailure ==
    [][ (last'.op = "Put" /\ last'.fault # "none") =>
            /\ last'.err = "transport"
            /\ mdCache' = mdCache /\ dataCache' = dataCache
      ]_vars

C8_Witness ==
    /\ last.op = "Put" /\ last.err = "transport"
    /\ ~MdHas(mdCache, last.key)
    /\ dataCache # <<>> /\ ~LruContains(dataCache, last.key)

\* C9: a Delete whose remote delete fails with an error other than
\* ErrObjectNotExist returns that error and leaves the index and the cache as
\* they were.
C9_DeleteFailure ==
    [][ (last'.op = "Delete" /\ last'.rerr \notin {"nil", "ErrObjectNotExist"}) =>
            /\ last'.err = last'.rerr
            /\ mdCache' = mdCache /\ dataCache' = dataCache
      ]_vars

C9_Witness ==
    /\ last.op = "Delete" /\ last.err = "transport"
    /\ MdHas(mdCache, last.key) /\ LruContains(dataCache, last.key)

\* C10: Has makes no remote call, returns no error, answers what the index
\* holds and changes nothing; what Has answers for a key changes only in a
\* step of Put, Delete or LoadMetadata, never when the bucket is changed by
\* others.
C10_HasIndexOnly ==
    [][ /\ last'.op = "Has" =>
              /\ last'.rcalls = 0 /\ last'.err = "nil"
              /\ last'.has = (last'.key \in DOMAIN mdCache)
              /\ remote' = remote /\ mdCache' = mdCache /\ dataCache' = dataCache
        /\ \A k \in Keys :
              HasCall(mdCache', k).has # HasCall(mdCache, k).has =>
                  last'.op \in {"Put", "Delete", "LoadMetadata"}
      ]_vars

C10_Witness ==
    /\ last.op = "Has" /\ last.has
    /\ GCSPath(last.key) \notin DOMAIN remote

\* C11: GetSize makes no remote call and changes nothing; it returns the size
\* the index records for the key when the key is in the index, and fails with
\* ErrNotFound exactly when the key is not in the index.
C11_GetSizeIndexOnly ==
    [][ last'.op = "GetSize" =>
            /\ last'.rcalls = 0
            /\ last'.key \in DOMAIN mdCache =>
                   last'.err = "nil" /\ last'.size = mdCache[last'.key].Size
            /\ last'.err = "ErrNotFound" <=> last'.key \notin DOMAIN mdCache
            /\ last'.err \in {"nil", "ErrNotFound"}
            /\ remote' = remote /\ mdCache' = mdCache /\ dataCache' = dataCache
      ]_vars

C11_Witness ==
    /\ last.op = "GetSize" /\ last.err = "ErrNotFound"
    /\ GCSPath(last.key) \in DOMAIN remote
    /\ \E k \in Keys : MdHas(mdCache, k)

\* C12: a Get of a key the cache holds returns the cached bytes and makes no
\* remote call; a Get of a key the cache does not hold, the bucket answering
\* that it has no such object, fails with ErrNotFound and leaves the cache as
\* it was.
C12_GetCacheFirst ==
    [][ last'.op = "Get" =>
            /\ LruContains(dataCache, last'.key) =>
                   /\ last'.err = "nil" /\ last'.rcalls = 0
                   /\ last'.data = LruValue(dataCache, last'.key)
            /\ (/\ ~LruContains(dataCache, last'.key)
                /\ GCSPath(last'.key) \notin DOMAIN remote
                /\ last'.fault = "none") =>
                   /\ last'.err = "ErrNotFound"
                   /\ dataCache' = dataCache
      ]_vars

C12_Witness ==
    /\ last.op = "Get" /\ last.err = "nil" /\ last.rcalls = 0
    /\ last.data # <<>>
    /\ \E k \in Keys : k # last.key /\ MdHas(mdCache, k) /\ ~LruContains(dataCache, k)

C17_HydrationFailure ==
    (qit.done /\ ~qit.keysOnly /\ qit.i > qit.nOut) =>
        /\ qit.nOut = qit.i - 1
        /\ last.op = "QueryNext" => last.err = qit.endErr
        /\ qit.endErr \notin {"nil", "ErrNotFound"}

\* C18: every entry a query produces carries a key of the snapshot and the
\* size the index recorded for it when the snapshot was taken; with keysOnly
\* it carries no value and costs no remote call, and without keysOnly its
\* value is what Get on that key returns in that step.
C18_EntryKeySize ==
    [][ (last'.op = "QueryNext" /\ last'.err = "nil") =>
            /\ last'.key \in DOMAIN qit.match
            /\ last'.key = qit.values[qit.i + 1].Key
            /\ last'.size = qit.match[last'.key].Size
            /\ qit.keysOnly =>
                   ~last'.has /\ last'.data = <<>> /\ last'.rcalls = 0
                   /\ dataCache' = dataCache
            /\ ~qit.keysOnly =>
                   /\ last'.has
                   /\ \E f \in GetFaults, n \in ReadCuts :
                          LET g == GetCall(remote, dataCache, last'.key, f, n)
                          IN  g.err = "nil" /\ g.data = last'.data /\ g.dc = dataCache'
      ]_vars

C18_Witness ==
    /\ last.op = "QueryNext" /\ last.err = "nil" /\ last.has
    /\ qit.nOut = 2
    /\ last.data = StoredValue(last.key) /\ last.size = Len(last.data)
    /\ ~MdHas(mdCache, qit.values[1].Key)

\* C19: the keys of the index change only in these steps: a successful Put
\* adds its key, a successful Delete removes its key, a successful bulk-load
\* adds the keys of the objects it listed; failed calls and Get leave the
\* keys of the index as they were.
C19_IndexInvariant ==
    [][ DOMAIN mdCache' =
            IF last'.op = "Put" /\ last'.err = "nil"
            THEN DOMAIN mdCache \cup {last'.key}
            ELSE IF last'.op = "Delete" /\ last'.err = "nil"
            THEN DOMAIN mdCache \ {last'.key}
            ELSE IF last'.op = "LoadMetadata" /\ last'.err = "nil"
            THEN DOMAIN mdCache \cup LoadCall(remote, mdCache, -1).keys
            ELSE DOMAIN mdCache
      ]_vars

\* a map the parser has to refuse: no bucket, a bucket that is no string or
\* is empty, a prefix that is no string, workers or cachesize that is no
\* number, no whole number or not positive
InvalidCount(v) ==
    /\ v.t # "absent"
    /\ \/ v.t \notin {"float64", "int"}
       \/ v.t = "float64" /\ v.n % 2 # 0
       \/ v.n <= 0

InvalidMap(m) ==
    \/ m.bucket.t # "string" \/ m.bucket.s = ""
    \/ m.prefix.t \notin {"absent", "string"}
    \/ InvalidCount(m.workers)
    \/ InvalidCount(m.cachesize)

\* C20: for every map that is invalid the parser returns an error and no
\* configuration: it does not panic, and it does not return a configuration
\* holding a default or a truncated number in place of the invalid value.
C20_ConfigValidation ==
    (parse.called /\ InvalidMap(parse.m)) => parse.out.kind = "error"

\* what the bucket, the index and the cache hold for key k
KeyState(k) ==
    [rem |-> IF GCSPath(k) \in DOMAIN remote THEN <<remote[GCSPath(k)]>> ELSE <<>>,
     md |-> IF MdHas(mdCache, k) THEN <<mdCache[k].Size>> ELSE <<>>,
     dc |-> IF LruContains(dataCache, k) THEN <<LruValue(dataCache, k)>> ELSE <<>>]

\* what a Put or a Delete leaves for its key when it runs on its own
Outcome(pr) ==
    IF pr.op = "Put"
    THEN [rem |-> <<pr.val>>, md |-> <<Len(pr.val)>>, dc |-> <<pr.val>>]
    ELSE [rem |-> <<>>, md |-> <<>>, dc |-> <<>>]

\* C14: when the last calls of two callers are a Put or a Delete of the same
\* key and both have returned, the bucket, the index and the cache hold for
\* that key what one of the two calls leaves on its own.
C14_SameKeyOutcome ==
    \A p, q \in Procs :
        (/\ p # q /\ ~conc.crashed
         /\ conc.proc[p].pc = "done" /\ conc.proc[q].pc = "done"
         /\ conc.proc[p].op \in {"Put", "Delete"} /\ conc.proc[q].op \in {"Put", "Delete"}
         /\ conc.proc[p].key = conc.proc[q].key) =>
            KeyState(conc.proc[p].key) \in {Outcome(conc.proc[p]), Outcome(conc.proc[q])}

\* C15: no two callers are inside the MetadataCache at the same time when
\* one of them writes it, and the program is never stopped by the runtime
\* for a concurrent access to the map.
C15_IndexMutualExclusion ==
    /\ ~conc.crashed
    /\ \A p, q \in Procs :
           (p # q /\ Inside(p) /\ Inside(q)) => ~(Writes(p) \/ Writes(q))

\* C16: the snapshot a Query returns holds exactly the records the index
\* held at one instant between the call of the Query and its return.
C16_SnapshotAtomic ==
    \A p \in Procs :
        (conc.proc[p].op = "Query" /\ conc.proc[p].pc = "done") =>
            \E m \in conc.proc[p].seen :
                /\ Len(conc.proc[p].vals) = Cardinality(DOMAIN m)
                /\ \A k \in DOMAIN m :
                       \E i \in 1 .. Len(conc.proc[p].vals) : conc.proc[p].vals[i] = m[k]

\* C21: the index is a finite map from key to size.  It starts empty.  Put(k, s)
\* makes Has(k) true and Get(k) return s, adds one to Size() when k is new and
\* leaves Size() alone when k is overwritten; Delete(k) makes Has(k) false
\* and Get(k) fail with ErrNotFound, takes one from Size() when k was there
\* and changes nothing when it was not; Size() is the number of keys; no
\* operation on k changes what Has and Get answer for another key; Has, Get
\* and Size change nothing.
C21_IndexIsMap ==
    [][ /\ last'.op = "IndexPut" =>
              /\ MdHas(mdCache', last'.key)
              /\ MdGet(mdCache', last'.key).err = "nil"
              /\ MdGet(mdCache', last'.key).md.Size = last'.size
              /\ MdSize(mdCache') =
                     MdSize(mdCache) + (IF MdHas(mdCache, last'.key) THEN 0 ELSE 1)
        /\ last'.op = "IndexDelete" =>
              /\ ~MdHas(mdCache', last'.key)
              /\ MdGet(mdCache', last'.key).err = "ErrNotFound"
              /\ ~MdHas(mdCache, last'.key) => mdCache' = mdCache
              /\ MdSize(mdCache') =
                     MdSize(mdCache) - (IF MdHas(mdCache, last'.key) THEN 1 ELSE 0)
        /\ last'.op \in {"IndexPut", "IndexDelete"} =>
              \A j \in Keys \ {last'.key} :
                  /\ MdHas(mdCache', j) = MdHas(mdCache, j)
                  /\ MdGet(mdCache', j) = MdGet(mdCache, j)
        /\ last'.op \in {"IndexHas", "IndexGet", "IndexSize"} => mdCache' = mdCache
        /\ last'.op = "IndexHas" => last'.has = (last'.key \in DOMAIN mdCache)
        /\ last'.op = "IndexGet" =>
              IF last'.key \in DOMAIN mdCache
              THEN last'.err = "nil" /\ last'.size = mdCache[last'.key].Size
              ELSE last'.err = "ErrNotFound"
        /\ last'.op = "IndexSize" => last'.size = Cardinality(DOMAIN mdCache)
        /\ last.op = "Init" => MdSize(mdCache) = 0 /\ \A j \in Keys : ~MdHas(mdCache, j)
      ]_vars

C21_Witness ==
    /\ last.op = "IndexGet" /\ last.err = "nil" /\ last.size = 2
    /\ MdSize(mdCache) = 2
    /\ \E j \in Keys \ {last.key} : MdGet(mdCache, j).md.Size = 1

\* C22: Iterator(p, n) yields pairwise distinct entries of the index, each
\* with a key that starts with p and the size the index records for it; all
\* the matching entries when n <= 0 (so Iterator("", 0) yields Size()
\* entries), and exactly min(n, number of matching entries) when n > 0.
C22_IteratorEntries ==
    [][ last'.op = "IndexIterator" =>
          LET vs == qit'.values
              matching == { k \in DOMAIN mdCache : HasPrefix(k, qit'.prefix) }
          IN  /\ \A j \in 1 .. Len(vs) :
                    /\ vs[j].Key \in matching
                    /\ vs[j].Size = mdCache[vs[j].Key].Size
              /\ \A i, j \in 1 .. Len(vs) : vs[i].Key = vs[j].Key => i = j
              /\ qit'.limit <= 0 => Len(vs) = Cardinality(matching)
              /\ qit'.limit > 0 =>
                    Len(vs) = IF qit'.limit < Cardinality(matching)
                              THEN qit'.limit ELSE Cardinality(matching)
              /\ (qit'.prefix = <<>> /\ qit'.limit = 0) => Len(vs) = MdSize(mdCache)
      ]_vars

C22_Witness ==
    /\ last.op = "IndexIterator"
    /\ qit.limit = 1 /\ Len(qit.values) = 1
    /\ Cardinality({ k \in DOMAIN mdCache : HasPrefix(k, qit.prefix) }) = 2
    /\ qit.i = 0

\* C23: a Get in which a remote step fails (the probe, the opening of the
\* reader, or the read part-way through the object) returns an error and adds
\* nothing to the data cache; a Get never returns, and never caches, bytes
\* that differ from the complete content of the remote object.
C23_GetCommitAfterSuccess ==
    [][ (last'.op = "Get" /\ last'.rcalls > 0) =>
          /\ last'.fault # "none" => (last'.err # "nil" /\ dataCache' = dataCache)
          /\ last'.err = "nil" =>
                /\ last'.data = remote[GCSPath(last'.key)]
                /\ LruContains(dataCache', last'.key)
                /\ LruValue(dataCache', last'.key) = remote[GCSPath(last'.key)]
      ]_vars

\* C24: a bulk-load that fails with a listing error after it has enumerated
\* some objects returns the error and leaves the index exactly as it was
\* before the call.
C24_LoadAllOrNothing ==
    [][ (last'.op = "LoadMetadata" /\ last'.fault = "list" /\ last'.rcalls >= 2) =>
          (last'.err # "nil" /\ mdCache' = mdCache)
      ]_vars

\* C25 as stated: in every reachable state every key of the data cache is a
\* key of the index.
C25_CacheWithinIndex ==
    \A k \in Keys : LruContains(dataCache, k) => MdHas(mdCache, k)

\* C25 as amended: Put, Delete, bulk-load and eviction never make a key one
\* that is cached and not indexed; the one step that does is a Get that
\* fetches the object of a key the index does not hold, and that Get always
\* leaves its key cached and not indexed.
C25_CacheWithinIndexAmended ==
    [][ /\ \A k \in Keys :
              (LruContains(dataCache', k) /\ ~MdHas(mdCache', k)) =>
                  \/ LruContains(dataCache, k) /\ ~MdHas(mdCache, k)
                  \/ /\ last'.op = "Get" /\ last'.key = k
                     /\ last'.err = "nil" /\ last'.rcalls = 2
        /\ (last'.op = "Get" /\ last'.err = "nil" /\ ~MdHas(mdCache, last'.key)) =>
              (LruContains(dataCache', last'.key) /\ ~MdHas(mdCache', last'.key))
        /\ (last'.op = "Put" /\ last'.err = "nil") =>
              (LruContains(dataCache', last'.key) /\ MdHas(mdCache', last'.key))
      ]_vars

C25_Witness ==
    /\ last.op = "Get" /\ last.err = "nil" /\ last.rcalls = 2 /\ last.fault = "none"
    /\ LruContains(dataCache, last.key)
    /\ ~MdHas(mdCache, last.key)
    /\ phase = "loaded"

\* the keys the data cache holds
CachedKeys(c) == { c[i].key : i \in 1 .. Len(c) }

\* C26: the data cache never holds more than DataCacheItems entries.  A Put
\* or a cache-miss Get that inserts a key into a full cache removes exactly
\* one other entry, and never the entry of the key that the call before it
\* added or read (with room for two entries: it removes the least recently
\* added or read one); into a cache with room it removes none.  A Put of a
\* key the cache holds replaces its bytes and removes no entry.
C26_CacheBounded ==
    [][ /\ Len(dataCache') <= cfg.DataCacheItems
        /\ Cardinality(CachedKeys(dataCache')) = Len(dataCache')
        /\ (last'.op \in {"Put", "Get"} /\ last'.err = "nil") =>
              /\ LruContains(dataCache', last'.key)
              /\ last'.op = "Put" => LruValue(dataCache', last'.key) = remote'[GCSPath(last'.key)]
              /\ last'.op = "Get" => LruValue(dataCache', last'.key) = last'.data
              /\ IF LruContains(dataCache, last'.key)
                 THEN CachedKeys(dataCache') = CachedKeys(dataCache)
                 ELSE IF Len(dataCache) < cfg.DataCacheItems
                 THEN CachedKeys(dataCache') = CachedKeys(dataCache) \cup {last'.key}
                 ELSE /\ Cardinality(CachedKeys(dataCache) \ CachedKeys(dataCache')) = 1
                      /\ CachedKeys(dataCache') \ CachedKeys(dataCache) = {last'.key}
                      /\ (last.op \in {"Put", "Get"} /\ last.err = "nil") =>
                             LruContains(dataCache', last.key)
              /\ \A k \in (CachedKeys(dataCache') \cap CachedKeys(dataCache)) \ {last'.key} :
                     LruValue(dataCache', k) = LruValue(dataCache, k)
      ]_vars

\* a Get that missed the full cache, every object stored: its key is now the
\* most recent entry
C26_Witness ==
    /\ last.op = "Get" /\ last.err = "nil" /\ last.rcalls = 2
    /\ Len(dataCache) = cfg.DataCacheItems
    /\ Cardinality(DOMAIN remote) = Cardinality(CacheKeys)
    /\ dataCache[1].key = last.key

\* C27: a Get that misses the cache and succeeds leaves its key in the data
\* cache with exactly the bytes it returned, so that a Get of the same key
\* right after a successful Get makes no remote call and returns the same
\* bytes.  Get changes no record of the index, and a call that evicts an
\* entry of the cache changes no record of the index but that of its own key.
C27_GetFillsCache ==
    [][ /\ (last'.op = "Get" /\ last'.err = "nil" /\ last'.rcalls > 0) =>
              /\ LruContains(dataCache', last'.key)
              /\ LruValue(dataCache', last'.key) = last'.data
        /\ (last.op = "Get" /\ last.err = "nil" /\ last'.op = "Get" /\ last'.key = last.key) =>
              /\ last'.rcalls = 0
              /\ last'.err = "nil"
              /\ last'.data = last.data
        /\ last'.op = "Get" => mdCache' = mdCache
        /\ CachedKeys(dataCache) \ CachedKeys(dataCache') # {} =>
              \A j \in Keys \ {last'.key} : MdGet(mdCache', j) = MdGet(mdCache, j)
      ]_vars

\* a Get answered from the cache, for a key that only an earlier Get can
\* have brought into the cache
C27_Witness ==
    /\ last.op = "Get" /\ last.err = "nil" /\ last.rcalls = 0
    /\ hist[last.key].st = "never"
    /\ last.data = remote[GCSPath(last.key)]
    /\ mdCache # EmptyMap

\* C28 as stated: a sequence that has reported its end has yielded every
\* entry of its snapshot: the closure Iterator returns and the results of a
\* Query alike.
C28_ExhaustsOnce ==
    (qit.open /\ qit.done) => qit.nOut = Len(qit.values)

\* C28 as amended: the closure Iterator returns (which is also what a Query
\* with keysOnly hands out) yields the entries of its snapshot in order,
\* each once; it reports the end exactly at its call number
\* Len(snapshot) + 1 and at every call after that, without yielding again.
\* The results of a Query that asks for values yield the entries in order
\* too, but end at the first entry whose value cannot be fetched: an end
\* before the whole snapshot was yielded happens only there.
C28_ExhaustsOnceAmended ==
    [][ /\ last'.op = "IteratorNext" =>
              /\ qit'.values = qit.values
              /\ IF qit.i < Len(qit.values)
                 THEN /\ last'.err = "nil"
                      /\ last'.key = qit.values[qit.i + 1].Key
                      /\ qit'.i = qit.i + 1 /\ qit'.nOut = qit.nOut + 1
                      /\ ~qit.done /\ ~qit'.done
                 ELSE /\ last'.err = "end"
                      /\ qit'.i = qit.i /\ qit'.nOut = qit.nOut
                      /\ qit'.done
        /\ (last'.op = "QueryNext" /\ last'.err = "nil") =>
              /\ qit'.values = qit.values
              /\ last'.key = qit.values[qit.i + 1].Key
              /\ qit'.i = qit.i + 1 /\ qit'.nOut = qit.nOut + 1
        /\ qit'.open =>
              /\ \A a, b \in 1 .. Len(qit'.values) :
                     qit'.values[a].Key = qit'.values[b].Key => a = b
              /\ qit'.nOut <= Len(qit'.values)
              /\ qit'.keysOnly => qit'.nOut = qit'.i
              /\ (qit'.keysOnly /\ qit'.done) => qit'.nOut = Len(qit'.values)
              /\ (qit'.done /\ qit'.nOut < Len(qit'.values)) =>
                     /\ ~qit'.keysOnly
                     /\ qit'.i = qit'.nOut + 1
                     /\ GCSPath(NewKey(qit'.values[qit'.i].Key)) \notin DOMAIN remote
      ]_vars

\* the closure called again after it has reported the end of a snapshot of
\* two entries
C28_Witness ==
    /\ last.op = "IteratorNext" /\ last.err = "end" /\ last.again
    /\ Len(qit.values) = 2 /\ qit.nOut = 2 /\ qit.i = 2

\* C29: the snapshot is not live.  A Put (of a new key or over a key) or a
\* Delete on the index after Iterator has returned changes nothing of what
\* the iterator yields: it yields the keys that matched when Iterator was
\* called, each with the size the index recorded then, and reports the end
\* after all of them, whatever the index holds by then.
C29_SnapshotNotLive ==
    [][ /\ last'.op \in {"IndexPut", "IndexDelete"} => qit' = qit
        /\ (last'.op = "IteratorNext" /\ last'.err = "nil") =>
              /\ last'.key \in DOMAIN qit.match
              /\ last'.size = qit.match[last'.key].Size
              /\ qit'.match = qit.match
        /\ (last'.op = "IteratorNext" /\ last'.err = "end") =>
              /\ qit.nOut = Len(qit.values)
              /\ (qit.limit <= 0) => qit.nOut = Cardinality(DOMAIN qit.match)
      ]_vars

\* an entry yielded with the size of the snapshot after the key was
\* overwritten with another size and a key was added to the index
C29_Witness ==
    /\ last.op = "IteratorNext" /\ last.err = "nil"
    /\ MdHas(mdCache, last.key) /\ mdCache[last.key].Size # last.size
    /\ MdSize(mdCache) > Cardinality(DOMAIN qit.match)
    /\ qit.limit <= 0 /\ qit.prefix = <<>>

\* C30: for the adapter's prefix ("ipfs" and "ipfs/" alike) and every key k,
\* the key that bulk-load derives from GCSPath(k) is k itself, so that a
\* successful bulk-load records every stored key under its own name with the
\* length of its object; and two keys never have the same path.
C30_KeyPathRoundTrip ==
    (last.op = "LoadMetadata" /\ last.err = "nil") =>
        /\ \A k \in Keys :
              /\ TrimPrefix(GCSPath(k), cfg.Prefix) = k
              /\ GCSPath(k) \in DOMAIN remote =>
                    /\ MdHas(mdCache, k)
                    /\ MdGet(mdCache, k).md.Size = Len(remote[GCSPath(k)])
        /\ \A j, k \in Keys : GCSPath(j) = GCSPath(k) => j = k

\* C31: a successful bulk-load on an adapter that has served no Put and no
\* Delete leaves the index with exactly one record per object of the bucket
\* under the prefix, under the object's name without the prefix and with the
\* object's size, and with no other record; bulk-load, successful or not,
\* leaves the data cache as it was.
C31_LoadExact ==
    [][ /\ (last'.op = "LoadMetadata" /\ last'.err = "nil" /\ phase = "new") =>
              LET names == { n \in DOMAIN remote : HasPrefix(n, cfg.Prefix) } IN
              /\ DOMAIN mdCache' = { TrimPrefix(n, cfg.Prefix) : n \in names }
              /\ MdSize(mdCache') = Cardinality(names)
              /\ \A n \in names :
                     /\ mdCache'[TrimPrefix(n, cfg.Prefix)].Key = TrimPrefix(n, cfg.Prefix)
                     /\ mdCache'[TrimPrefix(n, cfg.Prefix)].Size = Len(remote[n])
        /\ last'.op = "LoadMetadata" => (dataCache' = dataCache /\ remote' = remote)
      ]_vars

\* a bulk-load that recorded two objects, a Get before it having filled the
\* data cache
C31_Witness ==
    /\ last.op = "LoadMetadata" /\ last.err = "nil" /\ phase = "loaded"
    /\ MdSize(mdCache) = 2 /\ Cardinality(DOMAIN remote) = 2
    /\ dataCache # <<>>

\* C32: a construction with a cache size that is not positive fails with an
\* error, and fails before the client of the bucket is created and before
\* the bucket is called.
C32_ConstructFailsFast ==
    (create.called /\ cfg.DataCacheItems <= 0) =>
        /\ ~create.returned /\ ~create.panic /\ create.err # "nil"
        /\ \A i \in 1 .. Len(create.events) :
              create.events[i] \notin {"NewClient", "CheckBucket", "LoadMetadata"}

\* C33: Create runs bulk-load exactly once, on an adapter that was
\* constructed, before it returns the adapter; when the construction fails
\* it returns the construction's error without running bulk-load; when
\* bulk-load fails it returns that error and no datastore.
C33_CreateLoadsOnce ==
    create.called =>
        LET loads == { i \in 1 .. Len(create.events) : create.events[i] = "LoadMetadata" } IN
        /\ ~create.panic
        /\ create.returned => (create.built /\ create.err = "nil" /\ Cardinality(loads) = 1)
        /\ ~create.built =>
              (~create.returned /\ create.err \in {"client", "lru", "bucket"} /\ loads = {})
        /\ (create.built /\ ~create.returned) =>
              (create.err = "transport" /\ Cardinality(loads) = 1)

\* C34: no call retries.  A Put makes at most one call to the bucket (the
\* write), a Delete at most one (the delete), a Get at most two (the probe,
\* then the read); a call of the bucket that fails ends the operation, which
\* returns the error the bucket gave.
C34_NoRetry ==
    last.op \in {"Put", "Get", "Delete"} =>
        /\ last.op \in {"Put", "Delete"} => last.rcalls <= 1
        /\ last.op = "Get" => last.rcalls <= 2
        /\ last.fault # "none" => last.err = "transport"

\* every call has returned
Quiescent == \A p \in Procs : conc.proc[p].pc \in {"idle", "done"}

\* C35: with Gets running concurrently with a Delete or a Put of the same
\* key, once every call has returned the data cache holds no entry for a key
\* the bucket no longer holds, and holds for every other cached key the
\* content the bucket holds, so that a later Get returns nothing stale.
C35_NoStaleAfterRace ==
    (Quiescent /\ ~conc.crashed) =>
        \A k \in Keys :
            LruContains(dataCache, k) =>
                /\ GCSPath(k) \in DOMAIN remote
                /\ LruValue(dataCache, k) = remote[GCSPath(k)]

\* C36: with calls made one at a time and nobody else writing the bucket,
\* in every reachable state every entry of the data cache holds the content
\* the bucket holds for its key.
C36_CacheCoherent ==
    \A k \in Keys :
        LruContains(dataCache, k) =>
            /\ GCSPath(k) \in DOMAIN remote
            /\ LruValue(dataCache, k) = remote[GCSPath(k)]

\* C37: with calls made one at a time and nobody else writing the bucket,
\* after a successful bulk-load the keys of the index are the keys of the
\* objects the bucket holds, each recorded with the length of its object, so
\* that a key Has reports has an object for Get to find.
C37_IndexAgreesWithRemote ==
    phase = "loaded" =>
        /\ DOMAIN mdCache = { k \in Keys : GCSPath(k) \in DOMAIN remote }
        /\ \A k \in DOMAIN mdCache :
              GCSPath(k) \in DOMAIN remote /\ mdCache[k].Size = Len(remote[GCSPath(k)])

\* C38: Query and the consumption of its results never change the index.
\* Query itself calls nothing remote and leaves the data cache alone.  With
\* keysOnly a result is produced without a remote call and without a change
\* of the data cache; without keysOnly each result is produced by one Get of
\* the entry's key, made when the consumer asks for that result, and the
\* data cache changes as that Get changes it.
C38_QueryFrame ==
    [][ /\ last'.op = "Query" =>
              /\ mdCache' = mdCache /\ dataCache' = dataCache /\ remote' = remote
              /\ last'.rcalls = 0
              /\ last'.err = "nil" => (qit'.i = 0 /\ qit'.nOut = 0)
        /\ last'.op = "QueryNext" =>
              /\ mdCache' = mdCache /\ remote' = remote
              /\ (qit.keysOnly \/ qit.i >= Len(qit.values)) =>
                     (last'.rcalls = 0 /\ dataCache' = dataCache)
              /\ (~qit.keysOnly /\ qit.i < Len(qit.values)) =>
                     /\ qit'.i = qit.i + 1
                     /\ \E f \in GetFaults, n \in ReadCuts :
                           LET g == GetCall(remote, dataCache,
                                            NewKey(qit.values[qit.i + 1].Key), f, n)
                           IN  /\ dataCache' = g.dc
                               /\ last'.rcalls = g.rcalls
                               /\ last'.err = g.err
                               /\ last'.data = g.data
      ]_vars

\* a result with its value, fetched from the bucket and now in the data
\* cache, the second entry of the snapshot not yet asked for
C38_Witness ==
    /\ last.op = "QueryNext" /\ last.err = "nil" /\ last.rcalls = 2
    /\ ~qit.keysOnly /\ qit.i = 1 /\ Len(qit.values) = 2
    /\ LruContains(dataCache, last.key)
    /\ ~LruContains(dataCache, qit.values[2].Key)

\* C39: a Put or a Delete of k, successful or failed, leaves the record the
\* index holds for every other key as it was; a Delete of k leaves the entry
\* the data cache holds for every other key as it was; a Put or a Get of k
\* changes the data cache for another key only by evicting its entry.
C39_OtherKeysUntouched ==
    [][ last'.op \in {"Put", "Delete", "Get"} =>
          \A j \in Keys \ {last'.key} :
              /\ MdGet(mdCache', j) = MdGet(mdCache, j)
              /\ (GCSPath(j) \in DOMAIN remote') = (GCSPath(j) \in DOMAIN remote)
              /\ last'.op = "Delete" =>
                    /\ LruContains(dataCache', j) = LruContains(dataCache, j)
                    /\ LruContains(dataCache, j) =>
                           LruValue(dataCache', j) = LruValue(dataCache, j)
              /\ LruContains(dataCache', j) =>
                    /\ LruContains(dataCache, j)
                    /\ LruValue(dataCache', j) = LruValue(dataCache, j)
      ]_vars

\* a Delete of one key that has left the other key indexed and cached
C39_Witness ==
    /\ last.op = "Delete" /\ last.err = "nil"
    /\ \E j \in Keys \ {last.key} :
          /\ MdHas(mdCache, j) /\ LruContains(dataCache, j)
          /\ hist[last.key].st = "deleted"
          /\ hist[j].st = "put"

\* C40: the end of a query's results tells a complete listing from one that
\* was cut short: when the snapshot is exhausted the final step carries no
\* error, and when a fetch failed it carries the error of the fetch.
C40_EndDistinguishable ==
    (qit.open /\ qit.done) =>
        /\ qit.nOut = Len(qit.values) => qit.endErr = "nil"
        /\ qit.nOut < Len(qit.values) => qit.endErr # "nil"

====
